---- MODULE Spec2Model ----
(***************************************************************************)
(* Atomic-to-Lichess browser extension.                                    *)
(*                                                                         *)
(* Part 1 (SpecWait): the element-wait utilities of                        *)
(*   src/shared/notifications.js (waitForElement, waitForElementRemoval,   *)
(*   waitForVisibleElement) running against a page whose DOM the host      *)
(*   mutates.                                                              *)
(* Part 2 (SpecSrc): the chess.com content script                          *)
(*   src/content_chesscom.js (injectButton, observeMovesControls,          *)
(*   handleButtonClick, extractPGN, copyToClipboard, openLichessTab).      *)
(*                                                                         *)
(* The browser's event loop is modelled as interleaved tasks.  A           *)
(* MutationObserver callback is a microtask: once records are queued no    *)
(* timer task runs before the callback has been delivered.  Timers carry   *)
(* the delay they were set with; the model does not order timers by their  *)
(* delays, so every order of firing is explored.                           *)
(***************************************************************************)
EXTENDS Integers, Sequences, FiniteSets, TLC

(***************************************************************************)
(* Bounds of the model.                                                    *)
(***************************************************************************)
MaxElem == 2        \* ordinary elements the host page can insert
MaxSel == 2         \* selectors besides the one matching the root element
MaxList == 2        \* longest list of fallback selectors handed to a wait
MaxBtn == 2         \* trigger elements reachable at once
MaxAct == 1         \* extractPGN closures reachable at once

(***************************************************************************)
(* Program constants.                                                      *)
(***************************************************************************)
ELEMENT_WAIT == 5000     \* TIMEOUTS.ELEMENT_WAIT
BOARD_WAIT == 10000      \* timeout initialize() passes for the game board
WATCHER_DEBOUNCE == 500  \* debounce of the re-injection watcher
EXTRACT_TIMEOUT == 5000  \* extractPGN's interception timeout
SUCCESS_RESET == 2000    \* reset delay after success
ERROR_RESET == 3000      \* reset delay after an error
SUCCESS_TOAST == 3000    \* duration of the success toast
ERROR_TOAST == 8000      \* duration of the error toast

VARIABLES
  \* ---- the page seen by a wait ----
  dom,          \* ordinary elements now in the document
  shown,        \* elements whose style makes them visible
  \* ---- one call of a wait utility ----
  wKind,        \* "none" | "element" | "removal" | "visible"
  wSels,        \* selector list of the call
  wTimeout,     \* timeout argument of the call
  wPhase,       \* "none" | "presence" | "await" | "visibility" | "done"
  wElem,        \* element found by the inner waitForElement (visible variant)
  inner,        \* promise of the inner waitForElement: "none"|"pending"|"resolved"|"rejected"
  promise,      \* the returned promise: "none"|"pending"|"resolved"|"rejected"
  value,        \* the element the returned promise resolved with
  error,        \* the error the returned promise rejected with
  obs1, rec1, timer1,   \* observer / queued records / timer of waitForElement(-Removal)
  obs2, rec2, timer2,   \* observer / queued records / timer of the visibility phase
  obsCreated, timersCreated,    \* MutationObservers and timers made by the call
  resolveCalls, rejectCalls     \* calls of resolve() / reject() of the returned promise

waitVars == <<dom, shown, wKind, wSels, wTimeout, wPhase, wElem, inner,
              promise, value, error, obs1, rec1, timer1, obs2, rec2, timer2,
              obsCreated, timersCreated, resolveCalls, rejectCalls>>

VARIABLES
  \* ---- the chess.com page ----
  page,         \* "game" | "other": does location.href match CHESS_COM_GAME_URL
  board,        \* a game-board element is in the document
  row,          \* '.moves-controls .moves-controls-row' is in the document
  dlRow,        \* the host's download control '.moves-btn-icon.moves-reset' is in the row
  dlOther,      \* an element matching a fallback export selector is in the document
  \* ---- module state of content_chesscom.js ----
  initPhase,    \* "loading" | "skipped" | "waitBoard" | "armed" | "failed"
  boardRec, boardTimer,     \* queued records / timer of initialize's waitForElement
  btns,         \* the trigger elements: where they are, what they show, their debounce timer
  sendButton,   \* 0 (null) or the element sendButton refers to
  isProcessing,
  buttonObserver, obsTimer,   \* re-injection watcher and the timer of its debounced callback
  \* ---- activations of handleButtonClick ----
  act,          \* 0, or the slot in calls of the running activation
  pc,           \* "idle" | "extract" | "clip" | "reset"
  calls,        \* the closure state of the extractPGN calls still reachable
  pgn, cleanPGN,
  resetTimer,
  clipboard, tabs, trace, toast,
  ignored       \* an invocation returned at the guard during this activation

srcVars == <<page, board, row, dlRow, dlOther, initPhase, boardRec, boardTimer,
             btns, sendButton, isProcessing, buttonObserver,
             obsTimer, act, pc, calls, pgn, cleanPGN, resetTimer,
             clipboard, tabs, trace, toast, ignored>>

VARIABLES
  \* ---- the lichess.org page and content_lichess.js ----
  pathname,     \* location.pathname
  textarea,     \* an element matching 'textarea.form-control' or 'textarea' is in the document
  form,         \* textarea.form || textarea.closest('form'): "none" | "plain" | "throws"
  submitButton, \* 'button[type="submit"]' is in the document
  fieldValue,   \* textarea.value
  hasRun,
  invocations,  \* calls of initializeLichessPaste so far
  ppc,          \* "none" | "waitTextarea" | "read" | "submitDelay" | "done" | "failed"
  taRec, taTimer,   \* queued continuation or records / timer of waitForTextarea
  reads,        \* calls of navigator.clipboard.readText
  events,       \* events dispatched on the textarea
  submitCalls,  \* calls of submitForm
  submitPromise,    \* "none" | "pending" | "resolved" | "rejected"
  submitTimer,  \* the 100 ms delay of submitForm
  submissions,  \* submitButton.click() and form.submit() calls that returned
  pasteError,   \* message of the error pastePGN rejected with, "none" if it did not
  notice        \* the notification of the lichess page

dstVars == <<pathname, textarea, form, submitButton, fieldValue, hasRun,
             invocations, ppc, taRec, taTimer, reads, events, submitCalls,
             submitPromise, submitTimer, submissions, pasteError, notice>>

VARIABLES
  \* ---- sanitizePGN applied on its own ----
  arg,          \* the value passed to sanitizePGN
  once,         \* sanitizePGN(arg), once computed
  twice,        \* sanitizePGN(sanitizePGN(arg)), once computed
  verdict       \* the result of validatePGN(arg), once computed

sanVars == <<arg, once, twice, verdict>>

VARIABLES
  \* ---- the toast notifications of one page ----
  notificationCounter,  \* let notificationCounter
  notes,                \* the notification objects ever created, in order
  activeNotifications,  \* the Map: id -> index in notes (0: no entry)
  containers,           \* elements with id atl-notification-container in the document
  notificationId,       \* the id the running agent function holds (0: none)
  agentPc               \* where the agent function is: idle, running, second

toastVars == <<notificationCounter, notes, activeNotifications, containers,
               notificationId, agentPc>>

vars == <<waitVars, srcVars, dstVars, sanVars, toastVars>>

(***************************************************************************)
(* The document.  Element 0 is the document element: it is always          *)
(* present, has no parent element and no offsetParent.  Elements           *)
(* 1..MaxElem are ordinary elements in document order.                     *)
(***************************************************************************)
RootElem == 0
NoElem == -1
Elems == 1..MaxElem
Selectors == 0..MaxSel
Present(d) == d \cup {RootElem}

\* selector 0 matches the document element, selector s > 0 every s-th element
Matches(e, s) == IF e = RootElem THEN s = 0 ELSE s = ((e - 1) % MaxSel) + 1

Min(S) == CHOOSE x \in S : \A y \in S : x <= y

\* root.querySelector(selector): first match in document order, or null
QuerySelector(d, s) ==
  LET hits == {e \in Present(d) : Matches(e, s)}
  IN IF hits = {} THEN NoElem ELSE Min(hits)

\* faulty variant: the last matching selector of the list wins
FirstMatchLast(d, sels) ==
  LET idx == {i \in 1..Len(sels) : QuerySelector(d, sels[i]) # NoElem}
  IN IF idx = {} THEN NoElem
     ELSE QuerySelector(d, sels[CHOOSE i \in idx : \A j \in idx : j <= i])

\* the for-loop over selectorArray: element of the first selector that matches
FirstMatch(d, sels) ==
  LET idx == {i \in 1..Len(sels) : QuerySelector(d, sels[i]) # NoElem}
  IN IF idx = {} THEN NoElem ELSE QuerySelector(d, sels[Min(idx)])

\* isElementVisible(element): computed style visible and offsetParent not null
\* (offsetParent is null for the document element and for a detached element)
isElementVisible(d, sh, e) == e \in d /\ e \in sh /\ e # RootElem

\* element.parentElement: null for the document element and for an element
\* removed from its parent; an element whose ancestor was removed keeps it
ParentElementCases(d, e) ==
  IF e = RootElem THEN {FALSE} ELSE IF e \in d THEN {TRUE} ELSE {TRUE, FALSE}

\* timers: setTimeout(callback, delay) / clearTimeout
NoTimer == [st |-> "none", delay |-> 0]
Armed(t) == [st |-> "pending", delay |-> t]
Clear(tm) == IF tm.st = "pending" THEN [tm EXCEPT !.st = "cleared"] ELSE tm
Fired(tm) == [tm EXCEPT !.st = "fired"]

\* lists of distinct fallback selectors
SelLists ==
  {l \in UNION {[1..n -> Selectors] : n \in 1..MaxList} :
     \A i, j \in 1..Len(l) : i # j => l[i] # l[j]}
Timeouts == {ELEMENT_WAIT, BOARD_WAIT}

NotFoundError(t, sels) == <<"Element not found within", t, sels>>
StillPresentError(t, sels) == <<"Element still present after", t, sels>>
NotVisibleError(t, sels) == <<"Element not visible within", t, sels>>
ObserveTypeError == <<"TypeError: parameter 1 is not of type 'Node'">>

InitWait ==
  /\ dom \in SUBSET Elems
  /\ shown \in SUBSET Elems
  /\ wKind = "none" /\ wSels = <<>> /\ wTimeout = 0
  /\ wPhase = "none" /\ wElem = NoElem
  /\ inner = "none" /\ promise = "none" /\ value = NoElem /\ error = <<>>
  /\ obs1 = "none" /\ rec1 = FALSE /\ timer1 = NoTimer
  /\ obs2 = "none" /\ rec2 = FALSE /\ timer2 = NoTimer
  /\ obsCreated = 0 /\ timersCreated = 0
  /\ resolveCalls = 0 /\ rejectCalls = 0

(***************************************************************************)
(* Promise plumbing: resolve() and reject() act only on a pending promise. *)
(***************************************************************************)
Resolved(p) == IF p = "pending" THEN "resolved" ELSE p
Rejected(p) == IF p = "pending" THEN "rejected" ELSE p

noObs1 == UNCHANGED <<obs1, rec1, timer1>>
noObs2 == UNCHANGED <<obs2, rec2, timer2>>
noPage == UNCHANGED <<dom, shown>>
noCall == UNCHANGED <<wKind, wSels, wTimeout>>

\* a microtask (observer callback, await continuation) is queued
MicrotaskQueued == rec1 \/ rec2 \/ wPhase = "await"

\* resolve(v) / reject(err) of the returned promise
ResolveReturned(v) ==
  /\ promise' = Resolved(promise)
  /\ value' = IF promise = "pending" THEN v ELSE value
  /\ resolveCalls' = resolveCalls + 1
  /\ UNCHANGED <<error, rejectCalls>>

RejectReturned(err) ==
  /\ promise' = Rejected(promise)
  /\ error' = IF promise = "pending" THEN err ELSE error
  /\ rejectCalls' = rejectCalls + 1
  /\ UNCHANGED <<value, resolveCalls>>

(***************************************************************************)
(* waitForElement / waitForElementRemoval: timer, then observer            *)
(***************************************************************************)
\* faulty variant: no timeout is set
SetupWaitNoTimer(t) ==
  /\ timer1' = NoTimer /\ obs1' = "connected" /\ rec1' = FALSE
  /\ timersCreated' = timersCreated /\ obsCreated' = obsCreated + 1

\* setTimeout(..., timeout); new MutationObserver(...); observer.observe(...)
SetupWait(t) ==
  /\ timer1' = Armed(t) /\ obs1' = "connected" /\ rec1' = FALSE
  /\ timersCreated' = timersCreated + 1 /\ obsCreated' = obsCreated + 1

\* faulty variant: the timer is left pending
OnFound1KeepTimer == timer1' = timer1 /\ obs1' = "disconnected"

\* observer callback on success: clearTimeout(timeoutId); observer.disconnect()
OnFound1 == timer1' = Clear(timer1) /\ obs1' = "disconnected"

\* faulty variant: the timer callback leaves the observer connected
OnTimeout1Leak == obs1' = obs1 /\ rec1' = FALSE

\* timer callback: observer.disconnect()
OnTimeout1 == obs1' = "disconnected" /\ rec1' = FALSE

CallWaitForElement(sels, t) ==
  /\ wKind = "none"
  /\ wKind' = "element" /\ wSels' = sels /\ wTimeout' = t
  /\ LET found == FirstMatch(dom, sels)
     IN IF found # NoElem
        THEN /\ promise' = "resolved" /\ value' = found
             /\ resolveCalls' = resolveCalls + 1
             /\ wPhase' = "done"
             /\ noObs1 /\ UNCHANGED <<obsCreated, timersCreated>>
        ELSE /\ promise' = "pending" /\ value' = value
             /\ resolveCalls' = resolveCalls
             /\ wPhase' = "presence"
             /\ SetupWait(t)
  /\ noPage /\ noObs2
  /\ UNCHANGED <<wElem, inner, error, rejectCalls>>
  /\ UNCHANGED <<srcVars, dstVars, sanVars, toastVars>>

CallWaitForElementRemoval(sel, t) ==
  /\ wKind = "none"
  /\ wKind' = "removal" /\ wSels' = <<sel>> /\ wTimeout' = t
  /\ IF QuerySelector(dom, sel) = NoElem
     THEN /\ promise' = "resolved"
          /\ resolveCalls' = resolveCalls + 1
          /\ wPhase' = "done"
          /\ noObs1 /\ UNCHANGED <<obsCreated, timersCreated>>
     ELSE /\ promise' = "pending"
          /\ resolveCalls' = resolveCalls
          /\ wPhase' = "presence"
          /\ SetupWait(t)
  /\ noPage /\ noObs2
  /\ UNCHANGED <<wElem, inner, value, error, rejectCalls>>
  /\ UNCHANGED <<srcVars, dstVars, sanVars, toastVars>>

\* waitForVisibleElement up to its await of waitForElement(selector, timeout, root)
CallWaitForVisibleElement(sel, t) ==
  /\ wKind = "none"
  /\ wKind' = "visible" /\ wSels' = <<sel>> /\ wTimeout' = t
  /\ promise' = "pending"
  /\ LET found == FirstMatch(dom, <<sel>>)
     IN IF found # NoElem
        THEN /\ inner' = "resolved" /\ wElem' = found
             /\ wPhase' = "await"
             /\ noObs1 /\ UNCHANGED <<obsCreated, timersCreated>>
        ELSE /\ inner' = "pending" /\ wElem' = wElem
             /\ wPhase' = "presence"
             /\ SetupWait(t)
  /\ noPage /\ noObs2
  /\ UNCHANGED <<value, error, resolveCalls, rejectCalls>>
  /\ UNCHANGED <<srcVars, dstVars, sanVars, toastVars>>

\* faulty variant: the callback takes any mutation for the awaited one
CondAnyMutation == TRUE

\* the awaited condition of the first observer's callback
Cond1 ==
  IF wKind = "removal" THEN QuerySelector(dom, wSels[1]) = NoElem
  ELSE FirstMatch(dom, wSels) # NoElem

\* MutationObserver callback of waitForElement / waitForElementRemoval
Deliver1 ==
  /\ rec1 /\ obs1 = "connected"
  /\ IF Cond1
     THEN /\ OnFound1 /\ rec1' = FALSE
          /\ IF wKind = "visible"
             THEN /\ inner' = "resolved" /\ wElem' = FirstMatch(dom, wSels)
                  /\ wPhase' = "await"
                  /\ UNCHANGED <<promise, value, error, resolveCalls, rejectCalls>>
             ELSE /\ ResolveReturned(IF wKind = "removal" THEN NoElem
                                     ELSE FirstMatch(dom, wSels))
                  /\ wPhase' = "done"
                  /\ UNCHANGED <<inner, wElem>>
     ELSE /\ rec1' = FALSE
          /\ UNCHANGED <<obs1, timer1, inner, wElem, wPhase, promise, value,
                         error, resolveCalls, rejectCalls>>
  /\ noPage /\ noCall /\ noObs2
  /\ UNCHANGED <<obsCreated, timersCreated>>
  /\ UNCHANGED <<srcVars, dstVars, sanVars, toastVars>>

\* setTimeout callback of waitForElement / waitForElementRemoval
Timer1Fire ==
  /\ timer1.st = "pending" /\ ~MicrotaskQueued
  /\ timer1' = Fired(timer1)
  /\ OnTimeout1
  /\ IF wKind = "visible"
     THEN /\ inner' = Rejected(inner)
          /\ wPhase' = IF inner = "pending" THEN "await" ELSE wPhase
          /\ UNCHANGED <<promise, value, error, resolveCalls, rejectCalls>>
     ELSE /\ RejectReturned(IF wKind = "removal"
                            THEN StillPresentError(wTimeout, wSels)
                            ELSE NotFoundError(wTimeout, wSels))
          /\ wPhase' = "done"
          /\ inner' = inner
  /\ noPage /\ noCall /\ noObs2
  /\ UNCHANGED <<wElem, obsCreated, timersCreated>>
  /\ UNCHANGED <<srcVars, dstVars, sanVars, toastVars>>

(***************************************************************************)
(* waitForVisibleElement after its await                                   *)
(***************************************************************************)
VisibleContinue ==
  /\ wPhase = "await"
  /\ \/ /\ inner = "rejected"          \* the await throws: the async function rejects
        /\ RejectReturned(NotFoundError(wTimeout, wSels))
        /\ wPhase' = "done"
        /\ noObs2 /\ UNCHANGED <<obsCreated, timersCreated>>
     \/ /\ inner = "resolved"
        /\ isElementVisible(dom, shown, wElem)
        /\ ResolveReturned(wElem)
        /\ wPhase' = "done"
        /\ noObs2 /\ UNCHANGED <<obsCreated, timersCreated>>
     \/ /\ inner = "resolved"
        /\ ~isElementVisible(dom, shown, wElem)
        /\ timer2' = Armed(wTimeout) /\ timersCreated' = timersCreated + 1
        /\ obs2' = "connected" /\ obsCreated' = obsCreated + 1 /\ rec2' = FALSE
        /\ \E hasParent \in ParentElementCases(dom, wElem) :
             IF hasParent
             THEN /\ wPhase' = "visibility"
                  /\ UNCHANGED <<promise, value, error, resolveCalls, rejectCalls>>
             ELSE \* observer.observe(null, ...) throws inside the executor
                  /\ wPhase' = "orphan"
                  /\ RejectReturned(ObserveTypeError)
  /\ noPage /\ noCall /\ noObs1
  /\ UNCHANGED <<wElem, inner>>
  /\ UNCHANGED <<srcVars, dstVars, sanVars, toastVars>>

\* MutationObserver callback of the visibility phase
Deliver2 ==
  /\ rec2 /\ obs2 = "connected"
  /\ rec2' = FALSE
  /\ IF isElementVisible(dom, shown, wElem)
     THEN /\ timer2' = Clear(timer2) /\ obs2' = "disconnected"
          /\ ResolveReturned(wElem)
          /\ wPhase' = "done"
     ELSE UNCHANGED <<timer2, obs2, wPhase, promise, value, error,
                      resolveCalls, rejectCalls>>
  /\ noPage /\ noCall /\ noObs1
  /\ UNCHANGED <<wElem, inner, obsCreated, timersCreated>>
  /\ UNCHANGED <<srcVars, dstVars, sanVars, toastVars>>

\* setTimeout callback of the visibility phase
Timer2Fire ==
  /\ timer2.st = "pending" /\ ~MicrotaskQueued
  /\ timer2' = Fired(timer2)
  /\ obs2' = "disconnected" /\ rec2' = FALSE
  /\ RejectReturned(NotVisibleError(wTimeout, wSels))
  /\ wPhase' = "done"
  /\ noPage /\ noCall /\ noObs1
  /\ UNCHANGED <<wElem, inner, obsCreated, timersCreated>>
  /\ UNCHANGED <<srcVars, dstVars, sanVars, toastVars>>

(***************************************************************************)
(* The host page: DOM mutations queue records for the connected observers. *)
(* obs1 watches childList/subtree of the root; obs2 watches the element's  *)
(* attributes and, when it has a parent, the parent's subtree.             *)
(***************************************************************************)
ChildListChange ==
  /\ rec1' = (rec1 \/ obs1 = "connected")
  /\ rec2' = (rec2 \/ (obs2 = "connected" /\ wPhase = "visibility"))

HostInsert(e) ==
  /\ e \notin dom
  /\ dom' = dom \cup {e}
  /\ ChildListChange
  /\ UNCHANGED <<shown, wKind, wSels, wTimeout, wPhase, wElem, inner, promise,
                 value, error, obs1, timer1, obs2, timer2, obsCreated,
                 timersCreated, resolveCalls, rejectCalls>>
  /\ UNCHANGED <<srcVars, dstVars, sanVars, toastVars>>

HostRemove(e) ==
  /\ e \in dom
  /\ dom' = dom \ {e}
  /\ ChildListChange
  /\ UNCHANGED <<shown, wKind, wSels, wTimeout, wPhase, wElem, inner, promise,
                 value, error, obs1, timer1, obs2, timer2, obsCreated,
                 timersCreated, resolveCalls, rejectCalls>>
  /\ UNCHANGED <<srcVars, dstVars, sanVars, toastVars>>

\* the host changes the style or class of an element
HostStyle(e) ==
  /\ shown' = IF e \in shown THEN shown \ {e} ELSE shown \cup {e}
  /\ rec2' = (rec2 \/ (obs2 = "connected" /\
                        (e = wElem \/ (wPhase = "visibility" /\ e \in dom))))
  /\ UNCHANGED <<dom, wKind, wSels, wTimeout, wPhase, wElem, inner, promise,
                 value, error, obs1, rec1, timer1, obs2, timer2, obsCreated,
                 timersCreated, resolveCalls, rejectCalls>>
  /\ UNCHANGED <<srcVars, dstVars, sanVars, toastVars>>

NextWait ==
  \/ \E sels \in SelLists, t \in Timeouts : CallWaitForElement(sels, t)
  \/ \E sel \in Selectors, t \in Timeouts : CallWaitForElementRemoval(sel, t)
  \/ \E sel \in Selectors, t \in Timeouts : CallWaitForVisibleElement(sel, t)
  \/ Deliver1
  \/ Timer1Fire
  \/ VisibleContinue
  \/ Deliver2
  \/ Timer2Fire
  \/ \E e \in Elems : HostInsert(e)
  \/ \E e \in Elems : HostRemove(e)
  \/ \E e \in Elems : HostStyle(e)

\* the event loop runs every queued microtask and every due timer
FairWait ==
  /\ WF_vars(Deliver1) /\ WF_vars(Deliver2) /\ WF_vars(VisibleContinue)
  /\ SF_vars(Timer1Fire) /\ SF_vars(Timer2Fire)

(***************************************************************************)
(* Text: a string is a sequence of one-character strings.                  *)
(***************************************************************************)
RECURSIVE StripTagsFrom(_, _)
RECURSIVE StripScriptsFrom(_, _)
RECURSIVE NormalizeFrom(_, _)
RECURSIVE CollapseFrom(_, _)

WhiteSpace == {" ", "\n", "\r", "\t"}
WordChars == {"a", "b", "c", "i", "p", "r", "s", "t", "_", "1"}

ToLower(c) ==
  CASE c = "S" -> "s" [] c = "C" -> "c" [] c = "R" -> "r" [] c = "I" -> "i"
    [] c = "P" -> "p" [] c = "T" -> "t" [] OTHER -> c

\* does text s hold pattern p (lower case) at index i, ignoring case
HoldsAt(s, i, p) ==
  /\ i + Len(p) - 1 <= Len(s)
  /\ \A k \in 1..Len(p) : ToLower(s[i + k - 1]) = p[k]

\* sanitized.replace(/<[^>]*>/g, ''): a '<' with a later '>' is removed
\* together with everything up to the first such '>'
StripTagsFrom(s, i) ==
  IF i > Len(s) THEN <<>>
  ELSE LET closers == {j \in (i + 1)..Len(s) : s[j] = ">"}
       IN IF s[i] = "<" /\ closers # {}
          THEN StripTagsFrom(s, Min(closers) + 1)
          ELSE <<s[i]>> \o StripTagsFrom(s, i + 1)

\* faulty variant: the replace without the g flag removes the first tag only
StripFirstTag(s) ==
  LET opens == {i \in 1..Len(s) : s[i] = "<" /\ \E j \in (i + 1)..Len(s) : s[j] = ">"}
  IN IF opens = {} THEN s
     ELSE LET i == Min(opens)
              j == Min({k \in (i + 1)..Len(s) : s[k] = ">"})
          IN SubSeq(s, 1, i - 1) \o SubSeq(s, j + 1, Len(s))

StripTags(s) == StripTagsFrom(s, 1)

OpenScript == <<"<", "s", "c", "r", "i", "p", "t">>
CloseScript == <<"<", "/", "s", "c", "r", "i", "p", "t", ">">>

\* sanitized.replace(/<script\b[^<]*(?:(?!<\/script>)<[^<]*)*<\/script>/gi, ''):
\* from '<script' at a word boundary to the first '</script>' after it
StripScriptsFrom(s, i) ==
  IF i > Len(s) THEN <<>>
  ELSE LET boundary == i + 7 > Len(s) \/ s[i + 7] \notin WordChars
           ends == {k \in (i + 7)..Len(s) : HoldsAt(s, k, CloseScript)}
       IN IF HoldsAt(s, i, OpenScript) /\ boundary /\ ends # {}
          THEN StripScriptsFrom(s, Min(ends) + 9)
          ELSE <<s[i]>> \o StripScriptsFrom(s, i + 1)

StripScripts(s) == StripScriptsFrom(s, 1)

\* replace(/\r\n/g, '\n') then replace(/\r/g, '\n')
NormalizeFrom(s, i) ==
  IF i > Len(s) THEN <<>>
  ELSE IF s[i] = "\r" /\ i < Len(s) /\ s[i + 1] = "\n"
       THEN <<"\n">> \o NormalizeFrom(s, i + 2)
       ELSE <<IF s[i] = "\r" THEN "\n" ELSE s[i]>> \o NormalizeFrom(s, i + 1)

NormalizeLineEndings(s) == NormalizeFrom(s, 1)

\* replace(/\n{3,}/g, '\n\n')
CollapseFrom(s, i) ==
  IF i > Len(s) THEN <<>>
  ELSE IF s[i] # "\n" THEN <<s[i]>> \o CollapseFrom(s, i + 1)
  ELSE LET stops == {j \in i..Len(s) : s[j] # "\n"}
           end == IF stops = {} THEN Len(s) + 1 ELSE Min(stops)
       IN (IF end - i >= 3 THEN <<"\n", "\n">> ELSE SubSeq(s, i, end - 1))
            \o CollapseFrom(s, end)

\* faulty variant: runs of newlines are left as they are
KeepBlankLines(s) == s

CollapseBlankLines(s) == CollapseFrom(s, 1)

\* String.prototype.trim
Trim(s) ==
  LET keep == {j \in 1..Len(s) : s[j] \notin WhiteSpace}
  IN IF keep = {} THEN <<>>
     ELSE SubSeq(s, Min(keep), CHOOSE j \in keep : \A k \in keep : k <= j)

sanitizePGN(text) ==
  IF Len(text) = 0 THEN <<>>
  ELSE Trim(CollapseBlankLines(NormalizeLineEndings(StripScripts(StripTags(text)))))

(***************************************************************************)
(* The chess.com content script (content_chesscom.js)                      *)
(***************************************************************************)
LICHESS_PASTE_URL == "https://lichess.org/paste"
PGN_NOT_FOUND == "Game data not found. Please ensure the game is fully loaded."
PGN_BUTTON_NOT_FOUND == "Download button not found. The Chess.com interface may have changed."
CLIPBOARD_WRITE_DENIED == "Clipboard access denied. Please check browser permissions."
LICHESS_TAB_FAILED == "Could not open Lichess tab. Please check if pop-ups are blocked."
INVALID_PGN == "Invalid game data format. Please try downloading the PGN manually."
EXTRACTING_PGN == "Extracting game data..."
OPENING_LICHESS == "Opening Lichess..."
SENT_TO_LICHESS == "Game sent to Lichess!"

\* ---- click targets seen by the capture-phase interceptor ----
CharsetPrefix == "data:text/plain;charset=utf-8,"
Base64Prefix == "data:text/plain;base64,"
BlobPrefix == "blob:"

\* a click target: its tag name and its href, split into prefix and payload;
\* the payload is a sequence of characters and percent escapes
Targets ==
  { [tag |-> "A", prefix |-> CharsetPrefix,
     payload |-> <<"%3C", "b", "%3E", "a", "%0D", "%0A", "%0D", "%0A",
                   "%0D", "%0A", "c", "%20">>],
    [tag |-> "A", prefix |-> CharsetPrefix, payload |-> <<"a", "%ZZ">>],
    [tag |-> "A", prefix |-> CharsetPrefix, payload |-> <<>>],
    [tag |-> "A", prefix |-> Base64Prefix, payload |-> <<"a">>],
    [tag |-> "A", prefix |-> BlobPrefix, payload |-> <<"a">>],
    [tag |-> "DIV", prefix |-> CharsetPrefix, payload |-> <<"a">>] }

\* an export link whose record holds markup and white space only
BlankLink ==
  [tag |-> "A", prefix |-> CharsetPrefix,
   payload |-> <<"%3C", "b", "%3E", "%20">>]

TargetsWithBlank == Targets \cup {BlankLink}

\* target.tagName === 'A' && target.href && target.href.startsWith('data:text/plain')
IsDownloadLink(t) == t.tag = "A" /\ t.prefix \in {CharsetPrefix, Base64Prefix}

\* target.href.match(/^data:text\/plain;charset=utf-8,(.+)$/)
MatchesDataUrl(t) ==
  /\ t.prefix = CharsetPrefix /\ Len(t.payload) >= 1
  /\ \A j \in 1..Len(t.payload) : t.payload[j] \notin {"\n", "\r"}

\* decodeURIComponent: throws URIError on a malformed escape
DecodeThrows(payload) ==
  \E j \in 1..Len(payload) : payload[j] \in {"%ZZ", "%"}

DecodeToken(tok) ==
  CASE tok = "%3C" -> "<" [] tok = "%3E" -> ">" [] tok = "%0A" -> "\n"
    [] tok = "%0D" -> "\r" [] tok = "%20" -> " " [] OTHER -> tok

decodeURIComponent(payload) == [j \in 1..Len(payload) |-> DecodeToken(payload[j])]

\* ---- closure state of one extractPGN call ----
NoCall ==
  [listener |-> FALSE, removed |-> FALSE, removals |-> 0, timer |-> NoTimer,
   settle |-> "none", err |-> "none", hit |-> FALSE]

\* the notification of the running activation: type, message and duration of
\* the last showLoading / updateNotification call made with notificationId
NoToast == [type |-> "none", msg |-> "none", duration |-> 0]

FreeCall(cs) == Min({k \in 1..MaxAct : cs[k] = NoCall})
HasFreeCall(cs) == \E k \in 1..MaxAct : cs[k] = NoCall

\* Once the activation of a call is over (cur is the activation still
\* running, 0 if none) its promise and rejection reason are unreachable, and
\* once its timer is no longer pending the whole closure is: the slot is freed.
ReleaseCalls(cs, cur) ==
  [k \in 1..MaxAct |->
     IF k = cur THEN cs[k]
     ELSE IF cs[k].timer.st # "pending" THEN NoCall
     ELSE [cs[k] EXCEPT !.err = "none", !.hit = FALSE]]

\* if (!interceptorRemoved) { removeEventListener(...); interceptorRemoved = true; }
RemoveInterceptor(c) ==
  IF ~c.removed
  THEN [c EXCEPT !.listener = FALSE, !.removed = TRUE, !.removals = @ + 1]
  ELSE c

\* faulty variant: the timeout callback leaves the interceptor registered
KeepInterceptor(c) == c

\* the timeout callback's clean-up (lines 302-305)
RemoveOnTimeout(c) == RemoveInterceptor(c)

\* faulty variant: a reject that overrides an outcome already decided
RejectAgain(c) == [c EXCEPT !.settle = "rejected", !.err = PGN_NOT_FOUND]

\* reject(new Error(PGN_NOT_FOUND)) of the timeout callback (line 307): a
\* no-op on a promise that has settled
RejectOnTimeout(c) ==
  [c EXCEPT !.settle = Rejected(c.settle),
            !.err = IF c.settle = "pending" THEN PGN_NOT_FOUND ELSE c.err]

\* interceptDownload(e) of one call, for a click on target t (lines 256-295)
interceptDownload(c, t) ==
  IF c.listener /\ IsDownloadLink(t)
  THEN IF MatchesDataUrl(t) /\ ~DecodeThrows(t.payload)
       THEN [RemoveInterceptor(c) EXCEPT
               !.settle = Resolved(c.settle), !.hit = TRUE]
       ELSE [RemoveInterceptor(c) EXCEPT
               !.settle = Rejected(c.settle), !.hit = TRUE,
               !.err = IF c.settle = "pending" THEN INVALID_PGN ELSE c.err]
  ELSE c

\* ---- the trigger elements ----
\* An element record: where it is, where it was inserted, the state it shows,
\* its pointer-events style, whether the timer of its debounced click
\* listener is pending and the delay that timer was set with.  NoBtn is a free
\* slot.
NoBtn == [loc |-> "new", pos |-> "none", look |-> "idle", pe |-> "auto",
          deb |-> FALSE, wait |-> 0]

\* addEventListener('click', debounce(handleButtonClick, 300))
BUTTON_DEBOUNCE == 300

\* the debounced listener runs: clearTimeout(timeoutId);
\* timeoutId = setTimeout(() => func.apply(this, args), wait)
debounced(bt) == [bt EXCEPT !.deb = TRUE, !.wait = BUTTON_DEBOUNCE]

\* faulty variant: the timer is an interval, it stays armed when it fires
TimerRepeats(bt) == bt

\* the timer of the debounced listener fires
TimerDone(bt) == [bt EXCEPT !.deb = FALSE, !.wait = 0]
InDocument(bt) == bt.loc \in {"row", "fixed"}
FreeBtn(bs) == Min({b \in 1..MaxBtn : bs[b] = NoBtn})
HasFreeBtn(bs) == \E b \in 1..MaxBtn : bs[b] = NoBtn

\* No code inserts an element a second time, so what an element out of the
\* document shows is never seen again: of a detached element only its pending
\* debounce timer is kept.  If it has none and sendButton does not refer to
\* it, it is unreachable and its slot is freed.  Detached elements that
\* sendButton does not refer to differ in nothing: they are kept in the
\* lowest slots that no other element holds.
Ghost == debounced([NoBtn EXCEPT !.loc = "detached"])

ReleaseBtns(bs, sb) ==
  LET kept == [b \in 1..MaxBtn |->
                 IF bs[b].loc # "detached" THEN bs[b]
                 ELSE IF ~bs[b].deb /\ b # sb THEN NoBtn
                 ELSE [NoBtn EXCEPT !.loc = "detached", !.deb = bs[b].deb,
                                    !.wait = bs[b].wait]]
      ghosts == {b \in 1..MaxBtn : kept[b] = Ghost /\ b # sb}
      open == {b \in 1..MaxBtn : kept[b] = NoBtn \/ b \in ghosts}
  IN [b \in 1..MaxBtn |->
        IF b \notin open THEN kept[b]
        ELSE IF Cardinality({c \in open : c < b}) < Cardinality(ghosts)
             THEN Ghost ELSE NoBtn]

\* a new element takes slot 1; what was there moves to the free slot
Place(bs, el) ==
  [bs EXCEPT ![FreeBtn(bs)] = bs[1], ![1] = el]

\* document.querySelector('#atomic-to-lichess-btn')
ButtonExists(bs) == \E b \in 1..MaxBtn : InDocument(bs[b])
\* movesControls.querySelector('#atomic-to-lichess-btn-container')
ContainerInRow(bs) == \E b \in 1..MaxBtn : bs[b].loc = "row"

\* updateButtonState(state) on the element sendButton refers to (what a
\* detached element shows is not tracked)
updateButtonState(bs, sb, state) ==
  IF sb = 0 \/ ~InDocument(bs[sb]) THEN bs
  ELSE [bs EXCEPT ![sb] =
          [@ EXCEPT !.look = state,
                    !.pe = IF state = "loading" THEN "none"
                           ELSE IF state = "success" THEN @ ELSE "auto"]]

\* injectButtonFixed(): a fixed-position button appended to the body
injectButtonFixed(bs, sb) ==
  [bs |-> Place(bs, [NoBtn EXCEPT !.loc = "fixed", !.pos = "body"]),
   sb |-> 1]

\* injectButton()
injectButton(bs, sb) ==
  IF ButtonExists(bs) THEN [bs |-> bs, sb |-> sb]
  ELSE IF ~row THEN injectButtonFixed(bs, sb)
  ELSE [bs |-> Place(bs, [NoBtn EXCEPT
                            !.loc = "row",
                            !.pos = IF dlRow THEN "afterDownload" ELSE "rowEnd"]),
        sb |-> 1]

\* faulty variant: the old element is left where it is
KeepElement(bs, sb) == bs

\* removeElement(sendButton)
removeElement(bs, sb) ==
  IF sb # 0 /\ InDocument(bs[sb]) THEN [bs EXCEPT ![sb].loc = "detached"] ELSE bs

\* the debounced callback of the re-injection watcher (lines 416-435)
\* the elements as injectButton() finds them when the callback calls it:
\* sendButton was set to null, and in the third case the old element removed
WatcherPre(bs, sb) ==
  IF ~ButtonExists(bs) /\ row THEN ReleaseBtns(bs, 0)
  ELSE IF ButtonExists(bs) /\ row /\ ~ContainerInRow(bs)
       THEN ReleaseBtns(removeElement(bs, sb), 0)
       ELSE bs

\* faulty variant: a callback that neither looks for the element already in
\* the document nor removes it before it injects into the row
WatcherNoDedup(bs, sb) ==
  IF row /\ ~ContainerInRow(bs) /\ HasFreeBtn(bs)
  THEN [bs |-> [bs EXCEPT ![FreeBtn(bs)] =
                  [NoBtn EXCEPT !.loc = "row",
                                !.pos = IF dlRow THEN "afterDownload" ELSE "rowEnd"]],
        sb |-> FreeBtn(bs)]
  ELSE [bs |-> bs, sb |-> sb]

\* faulty variant: whenever the row exists the callback removes the control
\* and injects a new one
WatcherAlways(bs, sb) ==
  IF row THEN injectButton(ReleaseBtns(removeElement(bs, sb), 0), 0)
  ELSE [bs |-> bs, sb |-> sb]

WatcherRun(bs, sb) ==
  IF ~ButtonExists(bs) /\ row THEN injectButton(WatcherPre(bs, sb), 0)
  ELSE IF ~ButtonExists(bs) /\ ~row THEN [bs |-> bs, sb |-> sb]
  ELSE IF ButtonExists(bs) /\ row /\ ~ContainerInRow(bs)
       THEN injectButton(WatcherPre(bs, sb), 0)
       ELSE [bs |-> bs, sb |-> sb]

\* A DOM write of the extension or the host is observed by the connected
\* watchers.  The callback of the re-injection watcher is debounce(fn, 500):
\* run as a microtask of the task that wrote the DOM, it only restarts the
\* debounce timer.  The callback of initialize's wait is queued.
Observed ==
  /\ obsTimer' = IF buttonObserver = "connected" THEN Armed(WATCHER_DEBOUNCE)
                 ELSE obsTimer
  /\ boardRec' = (boardRec \/ initPhase = "waitBoard")

SrcMicrotask == boardRec

InitSrc ==
  /\ page \in {"game", "other"}
  /\ board \in BOOLEAN /\ row \in BOOLEAN /\ dlOther \in BOOLEAN
  /\ dlRow \in {d \in BOOLEAN : d => row}
  /\ initPhase = "loading" /\ boardRec = FALSE /\ boardTimer = NoTimer
  /\ btns = [b \in 1..MaxBtn |-> NoBtn] /\ sendButton = 0
  /\ isProcessing = FALSE
  /\ buttonObserver = "none" /\ obsTimer = NoTimer
  /\ act = 0 /\ pc = "idle"
  /\ calls = [k \in 1..MaxAct |-> NoCall]
  /\ pgn = <<>> /\ cleanPGN = <<>>
  /\ resetTimer = NoTimer
  /\ clipboard = <<"o">> /\ tabs = <<>> /\ trace = <<>> /\ toast = NoToast
  /\ ignored = FALSE

\* the state of the part of the page a specification does not exercise
IdleSrc ==
  /\ page = "other" /\ board = FALSE /\ row = FALSE /\ dlOther = FALSE
  /\ dlRow = FALSE
  /\ initPhase = "loading" /\ boardRec = FALSE /\ boardTimer = NoTimer
  /\ btns = [b \in 1..MaxBtn |-> NoBtn] /\ sendButton = 0
  /\ isProcessing = FALSE
  /\ buttonObserver = "none" /\ obsTimer = NoTimer
  /\ act = 0 /\ pc = "idle"
  /\ calls = [k \in 1..MaxAct |-> NoCall]
  /\ pgn = <<>> /\ cleanPGN = <<>>
  /\ resetTimer = NoTimer
  /\ clipboard = <<>> /\ tabs = <<>> /\ trace = <<>> /\ toast = NoToast
  /\ ignored = FALSE

IdleWait ==
  /\ dom = {} /\ shown = {}
  /\ wKind = "none" /\ wSels = <<>> /\ wTimeout = 0
  /\ wPhase = "none" /\ wElem = NoElem
  /\ inner = "none" /\ promise = "none" /\ value = NoElem /\ error = <<>>
  /\ obs1 = "none" /\ rec1 = FALSE /\ timer1 = NoTimer
  /\ obs2 = "none" /\ rec2 = FALSE /\ timer2 = NoTimer
  /\ obsCreated = 0 /\ timersCreated = 0
  /\ resolveCalls = 0 /\ rejectCalls = 0

\* a JavaScript value: its type and, for a string, its characters
JsString(s) == [type |-> "string", chars |-> s]
Unset == [type |-> "unset", chars |-> <<>>]

\* bounds of the notification model: notifications created per page load,
\* removal timers pending per notification
MaxToast == 2
MaxRuns == 3
MaxRemovals == 2

\* no notification was shown yet
IdleToast ==
  /\ notificationCounter = 0 /\ notes = <<>>
  /\ activeNotifications = [i \in 1..(MaxRuns + 1) |-> 0]
  /\ containers = 0 /\ notificationId = 0 /\ agentPc = "idle"

\* sanitizePGN is not being exercised on its own
IdleSan == arg = Unset /\ once = Unset /\ twice = Unset /\ verdict = Unset

\* the lichess page is not open
IdleDst ==
  /\ pathname = "/" /\ textarea = FALSE /\ form = "none"
  /\ submitButton = FALSE /\ fieldValue = <<>>
  /\ hasRun = FALSE /\ invocations = 0 /\ ppc = "none"
  /\ taRec = FALSE /\ taTimer = NoTimer
  /\ reads = 0 /\ events = <<>>
  /\ submitCalls = 0 /\ submitPromise = "none" /\ submitTimer = NoTimer
  /\ submissions = <<>> /\ pasteError = "none" /\ notice = NoToast

\* nothing outside the chess.com page is touched
noWait == UNCHANGED <<waitVars, dstVars, sanVars, toastVars>>
noHost == UNCHANGED <<page, board, row, dlRow, dlOther>>
noInit == UNCHANGED <<initPhase, boardTimer>>
noWatcher == UNCHANGED <<buttonObserver, obsTimer>>
noAct == UNCHANGED <<act, pc, calls, pgn, cleanPGN, resetTimer,
                     clipboard, tabs, trace, toast, ignored, isProcessing>>

(***************************************************************************)
(* initialize(), injectButton(), observeMovesControls()                    *)
(***************************************************************************)
\* lines 33-37 of initialize: injectButton(); observeMovesControls()
Arm ==
  /\ LET r == injectButton(btns, sendButton)
     IN btns' = r.bs /\ sendButton' = r.sb
  /\ buttonObserver' = "connected" /\ obsTimer' = NoTimer
  /\ initPhase' = "armed"

Initialize ==
  /\ initPhase = "loading"
  /\ IF page # "game"
     THEN /\ initPhase' = "skipped"
          /\ UNCHANGED <<boardRec, boardTimer, btns, sendButton,
                         buttonObserver, obsTimer>>
     ELSE IF board
     THEN Arm /\ UNCHANGED <<boardRec, boardTimer>>
     ELSE /\ initPhase' = "waitBoard"
          /\ boardTimer' = Armed(BOARD_WAIT) /\ boardRec' = FALSE
          /\ UNCHANGED <<btns, sendButton, buttonObserver, obsTimer>>
  /\ noWait /\ noHost /\ noAct

\* observer callback of initialize's waitForElement
BoardDeliver ==
  /\ boardRec /\ initPhase = "waitBoard"
  /\ boardRec' = FALSE
  /\ IF board
     THEN Arm /\ boardTimer' = Clear(boardTimer)
     ELSE UNCHANGED <<initPhase, boardTimer, btns, sendButton,
                      buttonObserver, obsTimer>>
  /\ noWait /\ noHost /\ noAct

\* faulty variant: the wait for the board resolves at its timeout
BoardTimeoutResolves ==
  /\ boardTimer.st = "pending" /\ ~SrcMicrotask
  /\ boardTimer' = Fired(boardTimer)
  /\ Arm
  /\ UNCHANGED boardRec
  /\ noWait /\ noHost /\ noAct

\* timeout of initialize's waitForElement: the catch block logs the error
BoardTimeout ==
  /\ boardTimer.st = "pending" /\ ~SrcMicrotask
  /\ boardTimer' = Fired(boardTimer)
  /\ initPhase' = "failed"
  /\ UNCHANGED <<boardRec, btns, sendButton>>
  /\ noWait /\ noHost /\ noAct /\ noWatcher

\* the debounce timer of the watcher fires
WatcherFire ==
  /\ obsTimer.st = "pending" /\ ~SrcMicrotask
  /\ LET pre == WatcherPre(btns, sendButton)
     IN ButtonExists(pre) \/ HasFreeBtn(pre)
  /\ LET r == WatcherRun(btns, sendButton)
     IN /\ btns' = ReleaseBtns(r.bs, r.sb) /\ sendButton' = r.sb
        /\ obsTimer' = IF r.bs # btns THEN Armed(WATCHER_DEBOUNCE) ELSE NoTimer
  /\ UNCHANGED <<boardRec, buttonObserver>>
  /\ noWait /\ noHost /\ noAct /\ noInit

(***************************************************************************)
(* The host page                                                           *)
(***************************************************************************)
noScript == UNCHANGED <<initPhase, boardTimer, sendButton, buttonObserver>>

HostBoard ==
  /\ ~board /\ board' = TRUE
  /\ Observed
  /\ UNCHANGED <<page, row, dlRow, dlOther, btns>>
  /\ noWait /\ noScript /\ noAct

\* the host inserts a control row, with or without its download control
HostAddRow(dl) ==
  /\ ~row /\ row' = TRUE /\ dlRow' = dl
  /\ Observed
  /\ UNCHANGED <<page, board, dlOther, btns>>
  /\ noWait /\ noScript /\ noAct

\* the host removes the control row and everything inside it
HostRemoveRow ==
  /\ row /\ row' = FALSE /\ dlRow' = FALSE
  /\ btns' = ReleaseBtns([b \in 1..MaxBtn |->
                            IF btns[b].loc = "row"
                            THEN [btns[b] EXCEPT !.loc = "detached"]
                            ELSE btns[b]], sendButton)
  /\ Observed
  /\ UNCHANGED <<page, board, dlOther>>
  /\ noWait /\ noScript /\ noAct

\* an element matching a fallback export selector appears or disappears
HostToggleExport ==
  /\ dlOther' = ~dlOther
  /\ Observed
  /\ UNCHANGED <<page, board, row, dlRow, btns>>
  /\ noWait /\ noScript /\ noAct

(***************************************************************************)
(* handleButtonClick(), extractPGN(), copyToClipboard(), openLichessTab()  *)
(***************************************************************************)
noDom == UNCHANGED sendButton

\* faulty variant: a handler without the in-progress guard
BusyNever == FALSE

\* the guard of handleButtonClick (lines 159-162)
Busy == isProcessing

\* faulty variant: the raw record is handed to the clipboard
CopyRaw(text) == text

\* line 189: const cleanPGN = sanitizePGN(pgn)
SanitizeBeforeCopy(text) == sanitizePGN(text)

\* faulty variant: no reset timer is armed
NoResetTimer(delay) == NoTimer

\* setTimeout(() => { updateButtonState('idle'); isProcessing = false; }, delay)
ResetAfter(delay) == Armed(delay)

\* faulty variant: a handler without the catch block
Uncaught(cs, bs, tr, msg) ==
  /\ btns' = bs /\ calls' = cs
  /\ toast' = toast /\ resetTimer' = resetTimer
  /\ pc' = "reset"
  /\ trace' = Append(tr, "error")

\* faulty variant: the catch block shows the generic message for every failure
GenericErrorPath(cs, bs, tr, msg) ==
  /\ btns' = updateButtonState(bs, sendButton, "error")
  /\ calls' = cs
  /\ toast' = [type |-> "error", msg |-> "An error occurred. Please try again.",
               duration |-> ERROR_TOAST]
  /\ resetTimer' = ResetAfter(ERROR_RESET)
  /\ pc' = "reset"
  /\ trace' = Append(tr, "error")

\* the catch block (lines 209-227)
ErrorPath(cs, bs, tr, msg) ==
  /\ btns' = updateButtonState(bs, sendButton, "error")
  /\ calls' = cs
  /\ toast' = [type |-> "error", msg |-> msg, duration |-> ERROR_TOAST]
  /\ resetTimer' = ResetAfter(ERROR_RESET)
  /\ pc' = "reset"
  /\ trace' = Append(tr, "error")

\* lines 179-192: after the await of extractPGN, up to the clipboard write
AfterExtract(cs, bs, tr, text) ==
  IF Len(text) = 0
  THEN ErrorPath(cs, bs, tr, PGN_NOT_FOUND) /\ UNCHANGED <<pgn, cleanPGN>>
  ELSE /\ pgn' = text
       /\ calls' = cs
       /\ toast' = [type |-> "loading", msg |-> OPENING_LICHESS, duration |-> 0]
       /\ cleanPGN' = SanitizeBeforeCopy(text)
       /\ trace' = tr \o <<"sanitize", "writeText">>
       /\ pc' = "clip"
       /\ btns' = bs
       /\ resetTimer' = resetTimer

\* the continuation of handleButtonClick once the call's promise is cs[k].settle
Continue(k, cs, bs, tr, t) ==
  CASE cs[k].settle = "resolved" ->
         AfterExtract(cs, bs, tr, decodeURIComponent(t.payload))
    [] cs[k].settle = "rejected" ->
         ErrorPath(cs, bs, tr, cs[k].err) /\ UNCHANGED <<pgn, cleanPGN>>
    [] OTHER ->
         /\ calls' = cs /\ btns' = bs /\ trace' = tr /\ pc' = "extract"
         /\ toast' = [type |-> "loading", msg |-> EXTRACTING_PGN, duration |-> 0]
         /\ UNCHANGED <<pgn, cleanPGN, resetTimer>>

\* what pgnButton.click() does synchronously: it throws, the host dispatches
\* a click on some target, or nothing happens before click() returns
ClickOutcomes == {"throws", "dispatch", "nothing"}

\* the user clicks trigger element b: debounce(handleButtonClick, 300)
UserClick(b) ==
  /\ InDocument(btns[b]) /\ btns[b].pe = "auto"
  /\ ~SrcMicrotask
  /\ btns' = [btns EXCEPT ![b] = debounced(btns[b])]
  /\ UNCHANGED boardRec
  /\ noWait /\ noHost /\ noInit /\ noWatcher /\ noAct /\ noDom

\* the debounce timer of element b fires: handleButtonClick() runs up to its
\* first await that does not settle in the same task
HandleClick(b, links) ==
  /\ btns[b].deb /\ ~SrcMicrotask
  /\ LET bs0 == ReleaseBtns([btns EXCEPT ![b] = TimerDone(btns[b])], sendButton)
     IN IF Busy
        THEN /\ btns' = bs0
             /\ ignored' = TRUE   \* log('debug', 'Already processing, ignoring click')
             /\ UNCHANGED <<act, pc, calls, pgn, cleanPGN, resetTimer, trace,
                            toast, tabs, isProcessing, obsTimer, boardRec>>
        ELSE /\ isProcessing' = TRUE
             /\ tabs' = <<>> /\ ignored' = FALSE
             /\ Observed
             /\ LET bs1 == updateButtonState(bs0, sendButton, "loading")
                    tr0 == <<"loading">>
                IN IF ~(dlRow \/ dlOther)
                   THEN \* querySelectorFallback found no export control:
                        \* extractPGN rejects before it creates any closure state
                        /\ act' = 0
                        /\ ErrorPath(calls, bs1, tr0, PGN_BUTTON_NOT_FOUND)
                        /\ UNCHANGED <<pgn, cleanPGN>>
                   ELSE /\ HasFreeCall(calls)
                        /\ act' = FreeCall(calls)
                        /\ LET k == FreeCall(calls)
                               cs1 == [calls EXCEPT ![k].listener = TRUE,
                                        ![k].timer = Armed(EXTRACT_TIMEOUT),
                                        ![k].settle = "pending"]
                           IN \E o \in ClickOutcomes, t \in links :
                             CASE o = "throws" ->
                                    Continue(k, [cs1 EXCEPT ![k] =
                                       [RemoveInterceptor(cs1[k]) EXCEPT
                                          !.timer = Clear(cs1[k].timer),
                                          !.settle = "rejected",
                                          !.err = PGN_BUTTON_NOT_FOUND]],
                                       bs1, tr0, t)
                               [] o = "dispatch" ->
                                    Continue(k, [j \in 1..MaxAct |->
                                                   interceptDownload(cs1[j], t)],
                                             bs1, tr0, t)
                               [] OTHER -> Continue(k, cs1, bs1, tr0, t)
  /\ UNCHANGED <<clipboard, buttonObserver>>
  /\ noWait /\ noHost /\ noInit /\ noDom

DebounceFire(b) == HandleClick(b, Targets)

\* the same on a page whose export link may also carry the blank record
DebounceFireBlank(b) == HandleClick(b, TargetsWithBlank)

\* a click reaches the document while interceptors are registered
DocClick(t) ==
  /\ \E k \in 1..MaxAct : calls[k].listener
  /\ ~SrcMicrotask
  /\ LET cs == [k \in 1..MaxAct |-> interceptDownload(calls[k], t)]
     IN IF pc = "extract" /\ cs[act].settle # "pending"
        THEN Continue(act, cs, btns, trace, t) /\ Observed
        ELSE /\ calls' = cs
             /\ UNCHANGED <<btns, trace, toast, pc, pgn, cleanPGN, resetTimer,
                            obsTimer, boardRec>>
  /\ UNCHANGED <<act, isProcessing, clipboard, tabs, ignored, buttonObserver>>
  /\ noWait /\ noHost /\ noInit /\ noDom

\* the 5-second timer of call k fires (lines 301-308)
ExtractTimerFire(k) ==
  /\ calls[k].timer.st = "pending" /\ ~SrcMicrotask
  /\ LET c == calls[k]
         cs == [calls EXCEPT ![k] =
                  [RejectOnTimeout(RemoveOnTimeout(c)) EXCEPT
                     !.timer = Fired(c.timer)]]
     IN IF k = act /\ pc = "extract" /\ c.settle = "pending"
        THEN /\ ErrorPath(cs, btns, trace, PGN_NOT_FOUND) /\ Observed
             /\ UNCHANGED <<pgn, cleanPGN>>
        ELSE /\ calls' = ReleaseCalls(cs, IF pc = "idle" THEN 0 ELSE act)
             /\ UNCHANGED <<btns, trace, toast, pc, pgn, cleanPGN, resetTimer,
                            obsTimer, boardRec>>
  /\ UNCHANGED <<act, isProcessing, clipboard, tabs, ignored, buttonObserver>>
  /\ noWait /\ noHost /\ noInit /\ noDom

\* navigator.clipboard.writeText(cleanPGN) settles; then openLichessTab() and
\* the success branch (lines 192-207), or the catch block
ClipboardSettle(ok, tabOk) ==
  /\ pc = "clip" /\ ~SrcMicrotask
  /\ IF ~ok
     THEN /\ ErrorPath(calls, btns, Append(trace, "writeDenied"), CLIPBOARD_WRITE_DENIED)
          /\ UNCHANGED <<clipboard, tabs>>
     ELSE /\ clipboard' = cleanPGN
          /\ IF ~tabOk
             THEN /\ ErrorPath(calls, btns, trace \o <<"written", "openBlocked">>,
                               LICHESS_TAB_FAILED)
                  /\ tabs' = tabs
             ELSE /\ tabs' = Append(tabs, LICHESS_PASTE_URL)
                  /\ btns' = updateButtonState(btns, sendButton, "success")
                  /\ calls' = calls
                  /\ toast' = [type |-> "success", msg |-> SENT_TO_LICHESS,
                               duration |-> SUCCESS_TOAST]
                  /\ resetTimer' = ResetAfter(SUCCESS_RESET)
                  /\ pc' = "reset"
                  /\ trace' = trace \o <<"written", "open", "success">>
  /\ Observed
  /\ UNCHANGED <<act, isProcessing, pgn, cleanPGN, ignored, buttonObserver>>
  /\ noWait /\ noHost /\ noInit /\ noDom

\* the reset timer fires: updateButtonState('idle'); isProcessing = false
ResetFire ==
  /\ resetTimer.st = "pending" /\ ~SrcMicrotask
  /\ resetTimer' = NoTimer
  /\ btns' = updateButtonState(btns, sendButton, "idle")
  /\ isProcessing' = FALSE
  /\ pc' = "idle"
  /\ pgn' = <<>> /\ cleanPGN' = <<>> /\ trace' = <<>> /\ toast' = NoToast
  /\ act' = 0 /\ calls' = ReleaseCalls(calls, 0) /\ ignored' = FALSE
  /\ IF sendButton # 0 /\ InDocument(btns[sendButton])
     THEN Observed ELSE UNCHANGED <<obsTimer, boardRec>>
  /\ UNCHANGED <<clipboard, tabs, buttonObserver>>
  /\ noWait /\ noHost /\ noInit /\ noDom

\* the beforeunload handler: it disconnects the re-injection watcher and
\* removes the current control; the page and its timers live on until the
\* document is replaced (or for good when the navigation is cancelled or was
\* a download)
Unload ==
  /\ ~SrcMicrotask
  /\ buttonObserver' = IF buttonObserver = "connected" THEN "disconnected"
                       ELSE buttonObserver
  /\ btns' = ReleaseBtns(removeElement(btns, sendButton), sendButton)
  /\ UNCHANGED <<sendButton, obsTimer, boardRec>>
  /\ noWait /\ noHost /\ noAct /\ noInit

NextSrc ==
  \/ Initialize
  \/ BoardDeliver
  \/ BoardTimeout
  \/ WatcherFire
  \/ HostBoard
  \/ \E dl \in BOOLEAN : HostAddRow(dl)
  \/ HostRemoveRow
  \/ HostToggleExport
  \/ \E b \in 1..MaxBtn : UserClick(b)
  \/ \E b \in 1..MaxBtn : DebounceFire(b)
  \/ \E t \in Targets : DocClick(t)
  \/ \E k \in 1..MaxAct : ExtractTimerFire(k)
  \/ \E ok, tabOk \in BOOLEAN : ClipboardSettle(ok, tabOk)
  \/ ResetFire
  \/ Unload

\* the same page, whose export link may also carry the blank record
NextSrcBlank ==
  \/ Initialize
  \/ BoardDeliver
  \/ BoardTimeout
  \/ WatcherFire
  \/ HostBoard
  \/ \E dl \in BOOLEAN : HostAddRow(dl)
  \/ HostRemoveRow
  \/ HostToggleExport
  \/ \E b \in 1..MaxBtn : UserClick(b)
  \/ \E b \in 1..MaxBtn : DebounceFireBlank(b)
  \/ \E t \in TargetsWithBlank : DocClick(t)
  \/ \E k \in 1..MaxAct : ExtractTimerFire(k)
  \/ \E ok, tabOk \in BOOLEAN : ClipboardSettle(ok, tabOk)
  \/ ResetFire
  \/ Unload

\* the content script runs on a page where no element wait of the utility
\* module is in progress
InitSource == InitSrc /\ IdleWait /\ IdleDst /\ IdleSan /\ IdleToast

SpecSrc == InitSource /\ [][NextSrc]_vars

\* the event loop runs queued microtasks and due timers, and the clipboard
\* write settles
FairSrc ==
  /\ WF_vars(BoardDeliver)
  /\ SF_vars(ResetFire)
  /\ SF_vars(\E k \in 1..MaxAct : ExtractTimerFire(k))
  /\ SF_vars(\E ok, tabOk \in BOOLEAN : ClipboardSettle(ok, tabOk))

FairSpecSrc == SpecSrc /\ FairSrc

SpecSrcBlank == InitSource /\ [][NextSrcBlank]_vars

\* the wait utilities exercised on their own, the content script not loaded
InitUtility == InitWait /\ IdleSrc /\ IdleDst /\ IdleSan /\ IdleToast

SpecWait == InitUtility /\ [][NextWait]_vars

FairSpecWait == SpecWait /\ FairWait

(***************************************************************************)
(* Claims about the element-wait utilities                                 *)
(***************************************************************************)
Settled == promise \in {"resolved", "rejected"}

\* some selector of the list matches an element of document d
SomeMatch(d, sels) ==
  \E i \in 1..Len(sels) : \E e \in Present(d) : Matches(e, sels[i])

\* v is the first element in document order matching the earliest selector
\* of the list that matches anything in d
EarliestMatch(d, sels, v) ==
  \E i \in 1..Len(sels) :
    /\ v \in Present(d) /\ Matches(v, sels[i])
    /\ \A u \in Present(d) : Matches(u, sels[i]) => v <= u
    /\ \A j \in 1..(i - 1) : \A u \in Present(d) : ~Matches(u, sels[j])

\* C1: a call of waitForElement made while some selector already matches
\* resolves at once with the element of the earliest matching selector in
\* list order, and the call creates no MutationObserver and no timer (then
\* or later).
C1_ImmediateResolve ==
  /\ [][(wKind = "none" /\ wKind' = "element" /\ SomeMatch(dom, wSels'))
          => /\ promise' = "resolved"
             /\ EarliestMatch(dom, wSels', value')
             /\ resolveCalls' = 1 /\ rejectCalls' = 0
             /\ obsCreated' = 0 /\ timersCreated' = 0
             /\ obs1' = "none" /\ timer1' = NoTimer]_vars
  /\ [][(wKind = "element" /\ obsCreated = 0)
          => (obsCreated' = 0 /\ timersCreated' = 0 /\ promise' = "resolved")]_vars

\* the second selector of the list decided an immediate resolution
C1_Witness ==
  /\ wKind = "element" /\ promise = "resolved" /\ obsCreated = 0
  /\ timersCreated = 0 /\ Len(wSels) = 2
  /\ Matches(value, wSels[2])

\* C2: when no selector matches, waitForElement rejects exactly once, at the
\* step in which the timer set with the configured timeout fires and not
\* before, with the 'Element not found within <timeout>ms' error; the
\* observer is disconnected in that step; and the promise never stays
\* pending forever.
C2_RejectAtTimeout ==
  /\ [][(wKind = "element" /\ (rejectCalls' # rejectCalls \/ promise' # promise)
           /\ promise' # "resolved")
          => /\ timer1 = Armed(wTimeout) /\ timer1' = Fired(timer1)
             /\ promise = "pending" /\ promise' = "rejected"
             /\ error' = NotFoundError(wTimeout, wSels)
             /\ obs1 = "connected" /\ obs1' = "disconnected"
             /\ rejectCalls' = 1 /\ resolveCalls' = 0]_vars
  /\ [][(wKind = "element" /\ promise = "rejected")
          => UNCHANGED <<promise, error, rejectCalls, resolveCalls>>]_vars
  /\ ((wKind = "element" /\ promise = "pending") ~> Settled)
  /\ [](wKind = "element" /\ promise = "pending"
          => ([](~SomeMatch(dom, wSels)) => <>(promise = "rejected")))

C2_Witness ==
  /\ wKind = "element" /\ promise = "rejected" /\ rejectCalls = 1
  /\ timer1.st = "fired" /\ obs1 = "disconnected"
  /\ error = NotFoundError(ELEMENT_WAIT, wSels) /\ Len(wSels) = 2

\* C3: when nothing matches at call time and a matching element is in the
\* document when the mutation notification is delivered, waitForElement
\* resolves in that step with the element of the earliest matching selector,
\* clears the timer and disconnects the observer; whatever the interleaving
\* of notifications and the timer, resolve and reject are called at most
\* once in total (never both).
C3_ResolveOnMutation ==
  /\ [][(wKind = "element" /\ rec1 /\ ~rec1' /\ SomeMatch(dom, wSels))
          => /\ promise = "pending" /\ promise' = "resolved"
             /\ EarliestMatch(dom, wSels, value')
             /\ timer1.st = "pending" /\ timer1'.st = "cleared"
             /\ obs1' = "disconnected"]_vars
  /\ [](wKind = "element"
          => /\ resolveCalls + rejectCalls <= 1
             /\ (promise = "resolved") = (resolveCalls = 1)
             /\ (promise = "rejected") = (rejectCalls = 1)
             /\ (Settled => timer1.st # "pending" /\ obs1 # "connected"))

C3_Witness ==
  /\ wKind = "element" /\ promise = "resolved" /\ obsCreated = 1
  /\ timer1.st = "cleared" /\ obs1 = "disconnected"
  /\ Len(wSels) = 2 /\ Matches(value, wSels[2])

ShownLook ==
  IF ButtonExists(btns)
  THEN btns[CHOOSE b \in 1..MaxBtn : InDocument(btns[b])].look
  ELSE "absent"

ControlMoves ==
  { <<"idle", "loading">>, <<"loading", "success">>, <<"loading", "error">>,
    <<"success", "idle">>, <<"error", "idle">> }

\* C5: the trigger control in the document moves only along idle -> loading
\* -> success -> idle or idle -> loading -> error -> idle (an activation
\* that fails before its first await passes through loading inside one
\* task), and it shows nothing but idle, loading, success and error.
C5_ControlCycle ==
  /\ [][(ShownLook # "absent" /\ ShownLook' # "absent" /\ ShownLook' # ShownLook)
          => \/ <<ShownLook, ShownLook'>> \in ControlMoves
             \/ /\ ShownLook = "idle" /\ ShownLook' = "error"
                /\ pc = "idle" /\ pc' = "reset"]_vars
  /\ [](ShownLook \in {"absent", "idle", "loading", "success", "error"})

Transfer == <<act, pc, calls, pgn, cleanPGN, resetTimer, clipboard, tabs,
              trace, toast, isProcessing, sendButton>>

\* the debounce timers that are pending: clicks not yet handled
PendingClicks == Cardinality({b \in 1..MaxBtn : btns[b].deb})

\* C6: an invocation of handleButtonClick made while isProcessing is set
\* (the debounce timer of some element fires) leaves the extraction, the
\* clipboard, the tabs, the notification and what every reachable control
\* shows as they were; isProcessing is set exactly while an activation is
\* between its start and its reset, and at most one extraction is pending.
C6_BusyIgnored ==
  /\ [][(isProcessing /\ PendingClicks' < PendingClicks)
          => /\ UNCHANGED Transfer
             /\ ignored'
             /\ \A b \in 1..MaxBtn :
                  (InDocument(btns[b]) \/ b = sendButton)
                     => /\ btns'[b].look = btns[b].look
                        /\ btns'[b].pe = btns[b].pe
                        /\ btns'[b].loc = btns[b].loc]_vars
  /\ [](/\ isProcessing = (pc # "idle")
        /\ Cardinality({k \in 1..MaxAct : calls[k].settle = "pending"}) <= 1
        /\ Cardinality({k \in 1..MaxAct : calls[k].listener}) <= 1
        /\ (pc = "extract") = (\E k \in 1..MaxAct : calls[k].settle = "pending")
        /\ (ignored => isProcessing))

\* a click on a control re-injected during the clipboard write was ignored
C6_Witness ==
  /\ ignored /\ pc = "clip" /\ isProcessing
  /\ ShownLook = "idle"

\* C7: the interceptor of a call is registered only while the call is
\* pending and its timer is pending (so the timeout and a throwing click
\* leave none); a click on an anchor whose href starts with data:text/plain
\* removes it whether or not the href decodes, a click on any other target
\* leaves the closure as it is; removeEventListener runs at most once per
\* call.
C7_SingleShot ==
  \A k \in 1..MaxAct :
    LET c == calls[k]
    IN /\ c.removals <= 1
       /\ c.removed = (c.removals = 1)
       /\ c.listener => (c.settle = "pending" /\ ~c.removed /\ c.timer.st = "pending")
       /\ c.settle \in {"resolved", "rejected"} => (~c.listener /\ c.removed)
       /\ c.timer.st \in {"fired", "cleared"} => (~c.listener /\ c.removed)
       /\ c.hit => (~c.listener /\ c.removed)
       /\ c.listener =>
            \A t \in Targets :
              LET d == interceptDownload(c, t)
              IN IF IsDownloadLink(t)
                 THEN ~d.listener /\ d.removals = 1 /\ d.settle # "pending"
                 ELSE d = c

\* an undecodable download link was intercepted, the interceptor went with
\* it, and the timer fired later without a second removal
C7_Witness ==
  \E k \in 1..MaxAct :
    /\ calls[k].hit /\ calls[k].settle = "rejected" /\ calls[k].err = INVALID_PGN
    /\ calls[k].timer.st = "fired" /\ calls[k].removals = 1 /\ ~calls[k].listener

\* C8 as stated: once a click on a data:text/plain anchor was intercepted
\* the record is resolved.
C8_MatchResolves ==
  \A k \in 1..MaxAct : calls[k].hit => calls[k].settle = "resolved"

\* C8 amended: the first of the two events decides.  When the timer fires
\* on a pending call, extractPGN rejects with PGN_NOT_FOUND and the
\* activation goes to the error state; when a data:text/plain anchor click
\* comes first, the call is resolved, or rejected with INVALID_PGN if the
\* href does not decode; the later firing of the timer changes neither the
\* outcome nor the activation.
C8_FirstEventDecides ==
  /\ [][\A k \in 1..MaxAct :
          /\ (calls[k].timer.st = "pending" /\ calls'[k].timer.st # "pending"
                /\ calls[k].settle = "pending")
               => /\ calls'[k].settle = "rejected"
                  /\ calls'[k].err = PGN_NOT_FOUND
                  /\ calls'[k].timer.st = "fired"
                  /\ pc = "extract" /\ pc' = "reset" /\ k = act
                  /\ toast'.type = "error" /\ toast'.msg = PGN_NOT_FOUND
                  /\ (sendButton # 0 /\ InDocument(btns[sendButton]))
                       => btns'[sendButton].look = "error"
          /\ (calls[k].timer.st = "pending" /\ calls'[k].timer.st # "pending"
                /\ calls[k].settle # "pending")
               => /\ UNCHANGED <<pc, btns, toast, trace, pgn, cleanPGN,
                                 clipboard, tabs, isProcessing, resetTimer>>
                  /\ (pc # "idle" /\ k = act)
                        => /\ calls'[k].settle = calls[k].settle
                           /\ calls'[k].err = calls[k].err
          /\ (calls[k].settle \in {"resolved", "rejected"} /\ calls'[k] # NoCall)
               => calls'[k].settle = calls[k].settle]_vars
  /\ [](\A k \in 1..MaxAct :
          /\ calls[k].hit =>
               \/ calls[k].settle = "resolved"
               \/ calls[k].settle = "rejected" /\ calls[k].err = INVALID_PGN
          /\ (calls[k].settle = "rejected" /\ calls[k].err = PGN_NOT_FOUND)
               => (calls[k].timer.st = "fired" /\ ~calls[k].hit))

\* the download link was intercepted first and the timer fired afterwards
C8_Witness ==
  \E k \in 1..MaxAct :
    /\ calls[k].hit /\ calls[k].settle = "resolved"
    /\ calls[k].timer.st = "fired" /\ pc = "clip"

SuccessTrace == <<"loading", "sanitize", "writeText", "written", "open", "success">>

IsPrefix(s, t) == Len(s) <= Len(t) /\ SubSeq(t, 1, Len(s)) = s

\* C9: the steps of an activation are a prefix of loading, sanitize,
\* writeText, written, open, success, or end in error after a failed
\* extraction, a denied write or a blocked tab; what is handed
\* to the clipboard is sanitizePGN of the extracted record; a tab is opened
\* only after the write succeeded, at https://lichess.org/paste; the control
\* enters success only after both.
C9_SuccessOrder ==
  /\ [](/\ (pc = "idle") = (trace = <<>>)
        /\ pc # "idle" =>
             /\ \/ IsPrefix(trace, SuccessTrace)
                \/ trace = <<"loading", "error">>
                \/ trace = <<"loading", "sanitize", "writeText", "writeDenied", "error">>
                \/ trace = <<"loading", "sanitize", "writeText", "written",
                             "openBlocked", "error">>
             /\ pc = "clip" => /\ trace = SubSeq(SuccessTrace, 1, 3)
                               /\ cleanPGN = sanitizePGN(pgn) /\ tabs = <<>>
             /\ tabs # <<>> => (trace = SuccessTrace /\ tabs = <<LICHESS_PASTE_URL>>)
             /\ trace = SuccessTrace =>
                  /\ clipboard = sanitizePGN(pgn) /\ Len(pgn) > 0
                  /\ tabs = <<LICHESS_PASTE_URL>>
             /\ (toast.type = "success") = (trace = SuccessTrace))
  /\ [][/\ (trace # SuccessTrace /\ trace' = SuccessTrace)
             => /\ pc = "clip" /\ pc' = "reset"
                /\ clipboard' = cleanPGN /\ tabs' = <<LICHESS_PASTE_URL>>
                /\ (sendButton # 0 /\ InDocument(btns[sendButton]))
                       => btns'[sendButton].look = "success"
        /\ clipboard' # clipboard => (pc = "clip" /\ clipboard' = cleanPGN)
        /\ tabs' # tabs => (tabs' = <<>> \/ (pc = "clip" /\ clipboard' = cleanPGN))
        /\ \A b \in 1..MaxBtn :
             (btns[b].look # "success" /\ btns'[b].look = "success")
                => (trace # SuccessTrace /\ trace' = SuccessTrace)]_vars

\* a success whose clipboard text differs from the raw record
C9_Witness ==
  /\ pc = "reset" /\ trace = SuccessTrace
  /\ clipboard # pgn /\ clipboard = sanitizePGN(pgn)
  /\ tabs = <<LICHESS_PASTE_URL>>
  /\ sendButton # 0 /\ btns[sendButton].look = "success"

\* C10: isProcessing never stays true: the success branch arms the reset
\* timer with 2000 ms, the catch block with 3000 ms, the timer stays pending
\* until it fires, and its firing is the only step that clears isProcessing.
C10_BackToIdle ==
  /\ isProcessing ~> (~isProcessing /\ pc = "idle")
  /\ [][/\ (pc # "reset" /\ pc' = "reset")
             => resetTimer' = Armed(IF trace'[Len(trace')] = "success"
                                    THEN SUCCESS_RESET ELSE ERROR_RESET)
        /\ (isProcessing /\ ~isProcessing')
             => (resetTimer.st = "pending" /\ pc = "reset" /\ pc' = "idle")
        /\ (~isProcessing /\ isProcessing') => pc = "idle"]_vars
  /\ [](/\ (pc = "reset") = (resetTimer.st = "pending")
        /\ pc = "reset" => isProcessing)

\* back to idle after a successful transfer
C10_Witness ==
  /\ ~isProcessing /\ pc = "idle" /\ resetTimer = NoTimer
  /\ tabs = <<LICHESS_PASTE_URL>> /\ clipboard # <<"o">>

\* the messages of the five failures of an activation
FailureMessages ==
  { PGN_BUTTON_NOT_FOUND, PGN_NOT_FOUND, INVALID_PGN, CLIPBOARD_WRITE_DENIED,
    LICHESS_TAB_FAILED }

\* C11: every failure of an activation (no export control, interception
\* timeout, undecodable artifact, clipboard write denied, tab blocked) ends
\* in the catch block of handleButtonClick: the control in the document
\* shows error, an error toast with the failure's message is shown for 8 s,
\* the 3 s reset timer is armed, and nothing else than that reset ends the
\* activation; after the reset the handler accepts the next click.
C11_FailuresCaught ==
  /\ [][/\ (pc # "reset" /\ pc' = "reset" /\ trace'[Len(trace')] = "error")
             => /\ toast'.type = "error" /\ toast'.duration = ERROR_TOAST
                /\ toast'.msg \in FailureMessages
                /\ ButtonExists(btns') => ShownLook' = "error"
                /\ resetTimer' = Armed(ERROR_RESET)
                /\ isProcessing'
        /\ (pc = "idle" /\ pc' # "idle" /\ ~(dlRow \/ dlOther))
             => (pc' = "reset" /\ toast'.msg = PGN_BUTTON_NOT_FOUND)
        /\ (pc = "extract" /\ pc' # "extract")
             => \/ pc' = "clip" /\ calls'[act].settle = "resolved"
                \/ pc' = "reset" /\ toast'.type = "error"
                     /\ \/ calls'[act].settle = "rejected"
                              /\ toast'.msg = calls'[act].err
                        \/ calls'[act].settle = "resolved"
                              /\ toast'.msg = PGN_NOT_FOUND
        /\ (pc = "clip" /\ pc' # "clip")
             => /\ pc' = "reset"
                /\ trace'[Len(trace')] \in {"success", "error"}
                /\ trace'[Len(trace') - 1] = "writeDenied"
                     => /\ toast'.type = "error"
                        /\ toast'.msg = CLIPBOARD_WRITE_DENIED
                        /\ UNCHANGED <<clipboard, tabs>>
                /\ trace'[Len(trace') - 1] = "openBlocked"
                     => /\ toast'.type = "error"
                        /\ toast'.msg = LICHESS_TAB_FAILED
                        /\ clipboard' = cleanPGN /\ tabs' = tabs
                /\ trace'[Len(trace')] = "error"
                     => trace'[Len(trace') - 1] \in {"writeDenied", "openBlocked"}
        /\ (pc = "reset" /\ pc' # "reset")
             => (pc' = "idle" /\ ~isProcessing' /\ resetTimer.st = "pending")]_vars
  /\ [](/\ pc \in {"idle", "extract", "clip", "reset"}
        /\ pc = "reset" => (resetTimer.st = "pending" /\ ENABLED ResetFire)
        /\ ButtonExists(btns) => (sendButton # 0 /\ InDocument(btns[sendButton]))
        /\ pc = "idle" =>
             /\ ~isProcessing
             /\ \A b \in 1..MaxBtn : InDocument(btns[b]) => btns[b].pe = "auto")

\* the new tab was blocked after the clipboard was written: error state
C11_Witness ==
  /\ pc = "reset" /\ toast.type = "error" /\ toast.msg = LICHESS_TAB_FAILED
  /\ ShownLook = "error" /\ clipboard = cleanPGN /\ tabs = <<>>
  /\ resetTimer = Armed(ERROR_RESET)

\* the elements of the document that carry the id atomic-to-lichess-btn
TriggerControls == {b \in 1..MaxBtn : InDocument(btns[b])}

\* C12: whatever the order of the initial injection, the fixed-position
\* fallback, removals and rebuilds of the control row by the host and
\* firings of the watcher's debounce timer, the document holds at most one
\* element with id atomic-to-lichess-btn.
C12_SingleControl == Cardinality(TriggerControls) <= 1

\* the fallback was replaced by a control in the row while the fallback's
\* own click debounce is still pending: two elements exist, one is shown
C12_Witness ==
  \E b, c \in 1..MaxBtn :
    /\ b # c /\ btns[b].loc = "detached" /\ btns[b].deb
    /\ btns[c].loc = "row" /\ sendButton = c

\* the fixed-position fallback is in the document
FallbackShown == \E b \in 1..MaxBtn : btns[b].loc = "fixed"

Unarmed ==
  /\ \A b \in 1..MaxBtn : btns[b] = NoBtn
  /\ sendButton = 0
  /\ buttonObserver = "none" /\ obsTimer = NoTimer
  /\ ~isProcessing

\* C14: the control is injected and the re-injection watcher started only
\* on a game page and only once the board is in the document (at the call of
\* initialize or when the wait's observer sees it); on any other page, while
\* the wait for the board is pending, and for good after its 10-second
\* timer fired, there is no control and no watcher.
C14_ArmedAfterBoard ==
  /\ [](/\ initPhase \in {"loading", "skipped", "waitBoard", "armed", "failed"}
        /\ initPhase # "armed" => Unarmed
        /\ initPhase = "armed"
             => (page = "game" /\ board /\ buttonObserver # "none"
                   /\ boardTimer.st \in {"none", "cleared"})
        /\ page # "game" => initPhase \in {"loading", "skipped"}
        /\ initPhase = "waitBoard"
             => (boardTimer = Armed(BOARD_WAIT) /\ (board => boardRec))
        /\ initPhase = "failed" => boardTimer.st = "fired")
  /\ [][/\ initPhase \in {"skipped", "failed", "armed"} => initPhase' = initPhase
        /\ (initPhase # "armed" /\ initPhase' = "armed")
             => /\ board /\ page = "game"
                /\ Cardinality(TriggerControls') = 1
                /\ sendButton' \in TriggerControls'
                /\ btns'[sendButton'].loc = IF row THEN "row" ELSE "fixed"
        /\ (initPhase # "failed" /\ initPhase' = "failed")
             => (~board /\ initPhase = "waitBoard")]_vars

\* the board came after the 10-second timer had fired: still no control
C14_Witness ==
  /\ initPhase = "failed" /\ board /\ row /\ page = "game" /\ Unarmed

(***************************************************************************)
(* The lichess.org content script: initializeLichessPaste(),               *)
(* waitForTextarea(), pastePGN(), submitForm()                             *)
(***************************************************************************)
MaxInvoke == 3      \* calls of initializeLichessPaste in one page load

SUBMIT_DELAY == 100
PASTE_SUCCESS_TOAST == 3000
PASTE_ERROR_TOAST == 8000

CLIPBOARD_READ_DENIED == "Could not read clipboard. Please check browser permissions or paste manually."
TEXTAREA_NOT_FOUND == "Paste area not found. Please try manually."
PASTING_DATA == "Pasting game data..."
SUBMITTING_FORM == "Loading analysis..."
READY_FOR_ANALYSIS == "Ready for analysis!"
\* the message of whatever form.submit() throws
SubmitFailure == "form.submit() failed"

Paths == {"/paste", "/paste/"}

\* what the clipboard holds when the page reads it
ClipTexts ==
  { <<>>, <<" ">>, <<"\n", " ">>, <<"e", "4">>, <<" ", "e", "4", "\n">> }

\* what navigator.clipboard.readText() does: it resolves with the text, or
\* rejects with NotAllowedError or with another error
ReadOutcomes == {"text", "NotAllowedError", "DataError"}

\* faulty variant: a script without the run guard
NeverRan == FALSE

\* line 20: if (hasRun) return
AlreadyRan == hasRun

\* faulty variant: only the empty string counts as an empty clipboard
IsEmptyOnly(text) == Len(text) = 0

\* line 95: !text || text.trim().length === 0
IsBlank(text) == Len(text) = 0 \/ Len(Trim(text)) = 0

\* faulty variant: what form.submit() throws escapes submitForm
SubmitEscalates(threw) == IF threw THEN "rejected" ELSE "resolved"

\* lines 127-156: the try block of submitForm covers the whole body and its
\* catch block only logs
SubmitSettles(threw) == "resolved"

InitDst ==
  /\ pathname \in Paths
  /\ textarea \in BOOLEAN
  /\ form \in {"none", "plain", "throws"}
  /\ submitButton \in BOOLEAN
  /\ fieldValue \in {<<>>, <<"x">>}
  /\ hasRun = FALSE /\ invocations = 0 /\ ppc = "none"
  /\ taRec = FALSE /\ taTimer = NoTimer
  /\ reads = 0 /\ events = <<>>
  /\ submitCalls = 0 /\ submitPromise = "none" /\ submitTimer = NoTimer
  /\ submissions = <<>> /\ pasteError = "none" /\ notice = NoToast

\* of the chess.com page only the system clipboard matters here
noSource == UNCHANGED <<page, board, row, dlRow, dlOther, initPhase, boardRec,
                        boardTimer, btns, sendButton, isProcessing,
                        buttonObserver, obsTimer, act, pc, calls, pgn,
                        cleanPGN, resetTimer, tabs, trace, toast, ignored>>
noPastePage == UNCHANGED <<pathname, textarea, form, submitButton>>
noSubmit == UNCHANGED <<submitCalls, submitPromise, submitTimer, submissions>>
noPaste == UNCHANGED <<reads, fieldValue, events, pasteError>>

\* the catch block of initializeLichessPaste (lines 51-60)
PasteErrorPath(msg) ==
  /\ notice' = [type |-> "error", msg |-> msg, duration |-> PASTE_ERROR_TOAST]
  /\ ppc' = "failed"

\* lines 47-50, once the promise of submitForm is settled as outcome
AfterSubmit(outcome, msg) ==
  /\ submitPromise' = outcome
  /\ IF outcome = "rejected"
     THEN PasteErrorPath(msg)
     ELSE /\ notice' = [type |-> "success", msg |-> READY_FOR_ANALYSIS,
                        duration |-> PASTE_SUCCESS_TOAST]
          /\ ppc' = "done"

\* faulty variant: form.submit() is called at once, without the delay
SubmitFormAtOnce ==
  /\ submitCalls' = submitCalls + 1
  /\ submissions' = IF form = "none"
                    THEN (IF submitButton THEN Append(submissions, "click")
                          ELSE submissions)
                    ELSE Append(submissions, "submit")
  /\ submitTimer' = submitTimer
  /\ AfterSubmit(SubmitSettles(FALSE), "none")

\* submitForm(textarea) up to its await (lines 124-147)
SubmitFormCall ==
  /\ submitCalls' = submitCalls + 1
  /\ IF form = "none"
     THEN /\ submissions' = IF submitButton THEN Append(submissions, "click")
                            ELSE submissions
          /\ submitTimer' = submitTimer
          /\ AfterSubmit(SubmitSettles(FALSE), "none")
     ELSE /\ submitTimer' = Armed(SUBMIT_DELAY)
          /\ submitPromise' = "pending"
          /\ submissions' = submissions
          /\ notice' = [type |-> "loading", msg |-> SUBMITTING_FORM, duration |-> 0]
          /\ ppc' = "submitDelay"

\* a call of initializeLichessPaste (lines 12-35)
Invoke ==
  /\ invocations < MaxInvoke
  /\ invocations' = invocations + 1
  /\ IF pathname # "/paste" \/ AlreadyRan
     THEN UNCHANGED <<hasRun, ppc, taRec, taTimer, notice>>
     ELSE /\ hasRun' = TRUE
          /\ notice' = [type |-> "loading", msg |-> PASTING_DATA, duration |-> 0]
          /\ ppc' = "waitTextarea"
          \* waitForElement: resolved at once, or an observer and a timer
          /\ taRec' = textarea
          /\ taTimer' = IF textarea THEN NoTimer ELSE Armed(ELEMENT_WAIT)
  /\ noPaste /\ noSubmit /\ noPastePage
  /\ UNCHANGED <<waitVars, sanVars, toastVars, clipboard>> /\ noSource

\* the continuation of waitForTextarea, or the observer callback of its
\* waitForElement: on a match, pastePGN calls readText (lines 35-43, 88-93)
TextareaDeliver ==
  /\ ppc = "waitTextarea" /\ taRec
  /\ taRec' = FALSE
  /\ IF textarea
     THEN /\ taTimer' = Clear(taTimer)
          /\ reads' = reads + 1
          /\ ppc' = "read"
     ELSE UNCHANGED <<taTimer, reads, ppc>>
  /\ UNCHANGED <<hasRun, invocations, notice, fieldValue, events, pasteError>>
  /\ noSubmit /\ noPastePage
  /\ UNCHANGED <<waitVars, sanVars, toastVars, clipboard>> /\ noSource

\* the 5-second timer of waitForTextarea fires (lines 78-81, then 51-60)
TextareaTimeout ==
  /\ ppc = "waitTextarea" /\ taTimer.st = "pending" /\ ~taRec
  /\ taTimer' = Fired(taTimer)
  /\ PasteErrorPath(TEXTAREA_NOT_FOUND)
  /\ UNCHANGED <<hasRun, invocations, taRec>>
  /\ noPaste /\ noSubmit /\ noPastePage
  /\ UNCHANGED <<waitVars, sanVars, toastVars, clipboard>> /\ noSource

\* readText() settles: the rest of pastePGN, then submitForm up to its
\* await (lines 93-117, 46-47, 124-147)
ReadSettle(o) ==
  /\ ppc = "read"
  /\ IF o = "text" /\ ~IsBlank(clipboard)
     THEN /\ fieldValue' = clipboard
          /\ events' = events \o <<"input", "change">>
          /\ pasteError' = pasteError
          /\ SubmitFormCall
     ELSE /\ pasteError' = CLIPBOARD_READ_DENIED
          /\ PasteErrorPath(CLIPBOARD_READ_DENIED)
          /\ UNCHANGED <<fieldValue, events>> /\ noSubmit
  /\ UNCHANGED <<hasRun, invocations, taRec, taTimer, reads>>
  /\ noPastePage
  /\ UNCHANGED <<waitVars, sanVars, toastVars, clipboard>> /\ noSource

\* the 100 ms delay of submitForm is over: form.submit() (lines 147-156)
SubmitTimerFire ==
  /\ ppc = "submitDelay" /\ submitTimer.st = "pending"
  /\ submitTimer' = Fired(submitTimer)
  /\ submissions' = IF form = "throws" THEN submissions
                    ELSE Append(submissions, "submit")
  /\ AfterSubmit(SubmitSettles(form = "throws"), SubmitFailure)
  /\ submitCalls' = submitCalls
  /\ UNCHANGED <<hasRun, invocations, taRec, taTimer>>
  /\ noPaste /\ noPastePage
  /\ UNCHANGED <<waitVars, sanVars, toastVars, clipboard>> /\ noSource

\* the page inserts its textarea
HostTextarea ==
  /\ ~textarea /\ textarea' = TRUE
  /\ taRec' = (taRec \/ (ppc = "waitTextarea" /\ taTimer.st = "pending"))
  /\ UNCHANGED <<pathname, form, submitButton, hasRun, invocations, ppc,
                 taTimer, notice>>
  /\ noPaste /\ noSubmit
  /\ UNCHANGED <<waitVars, sanVars, toastVars, clipboard>> /\ noSource

\* the page changes location.pathname through the history API
HostNavigate(path) ==
  /\ pathname # path /\ pathname' = path
  /\ UNCHANGED <<textarea, form, submitButton, hasRun, invocations, ppc,
                 taRec, taTimer, notice>>
  /\ noPaste /\ noSubmit
  /\ UNCHANGED <<waitVars, sanVars, toastVars, clipboard>> /\ noSource

\* the user or another program puts a text on the system clipboard
ClipboardChange(text) ==
  /\ clipboard # text /\ clipboard' = text
  /\ UNCHANGED dstVars
  /\ UNCHANGED <<waitVars, sanVars, toastVars>> /\ noSource

NextDst ==
  \/ Invoke
  \/ TextareaDeliver
  \/ TextareaTimeout
  \/ \E o \in ReadOutcomes : ReadSettle(o)
  \/ SubmitTimerFire
  \/ HostTextarea
  \/ \E path \in Paths : HostNavigate(path)
  \/ \E text \in ClipTexts : ClipboardChange(text)

\* the lichess page is loaded; the chess.com page plays no part
InitPaste == InitDst /\ IdleWait /\ IdleSrc /\ IdleSan /\ IdleToast

SpecDst == InitPaste /\ [][NextDst]_vars

(***************************************************************************)
(* Claims about the lichess.org content script                             *)
(***************************************************************************)
\* what a run of the agent does to the page and what it keeps for itself
PasteEffects == <<reads, fieldValue, events, submitCalls, submitPromise,
                  submitTimer, submissions, pasteError, notice, ppc, taRec,
                  taTimer, hasRun, clipboard>>

\* C15: a call of initializeLichessPaste made on another path than /paste,
\* or after an earlier call on /paste set hasRun (whatever that run has
\* reached), reads no clipboard, writes no field and submits nothing; in one
\* page load the clipboard is read at most once, the field written at most
\* once and the form submitted at most once, all by the run of the first
\* call made on /paste.
C15_OncePerLoad ==
  /\ [][/\ (invocations' # invocations /\ (pathname # "/paste" \/ hasRun))
             => UNCHANGED PasteEffects
        /\ (invocations' # invocations /\ pathname = "/paste" /\ ~hasRun)
             => (hasRun' /\ ppc' = "waitTextarea" /\ reads' = 0)
        /\ (~hasRun /\ hasRun') => (pathname = "/paste" /\ invocations' # invocations)
        /\ hasRun => hasRun'
        /\ (reads' # reads \/ fieldValue' # fieldValue \/ events' # events
              \/ submitCalls' # submitCalls \/ submissions' # submissions)
             => (hasRun /\ invocations' = invocations)]_vars
  /\ [](/\ reads <= 1 /\ submitCalls <= 1
        /\ Len(submissions) <= 1 /\ Len(events) <= 2
        /\ hasRun = (ppc # "none")
        /\ (invocations = 0) => ~hasRun)

\* two more calls were made after the run of the first one had finished
C15_Witness ==
  /\ invocations = MaxInvoke /\ ppc = "done" /\ reads = 1
  /\ submissions = <<"submit">> /\ fieldValue = <<"e", "4">>

\* the text has no character that trim() keeps
OnlyWhiteSpace(text) == \A i \in 1..Len(text) : text[i] \in WhiteSpace

\* C16: when readText() rejects, or resolves with an empty or
\* whitespace-only text, pastePGN rejects with CLIPBOARD_READ_DENIED, the
\* error notification with that message is shown, textarea.value stays as
\* it was, no input or change event is dispatched and submitForm is not
\* called; otherwise the text read is written unchanged and both events
\* are dispatched.
C16_BlankClipboard ==
  /\ [][/\ ((\E o \in ReadOutcomes \ {"text"} : ReadSettle(o))
              \/ (ppc = "read" /\ ppc' # "read" /\ OnlyWhiteSpace(clipboard)))
             => /\ pasteError' = CLIPBOARD_READ_DENIED
                /\ ppc' = "failed"
                /\ notice' = [type |-> "error", msg |-> CLIPBOARD_READ_DENIED,
                              duration |-> PASTE_ERROR_TOAST]
                /\ UNCHANGED <<fieldValue, events, submitCalls, submitPromise,
                               submitTimer, submissions>>
        /\ (ppc = "read" /\ ppc' # "read" /\ pasteError' = "none")
             => /\ ~OnlyWhiteSpace(clipboard)
                /\ fieldValue' = clipboard
                /\ events' = <<"input", "change">>
                /\ submitCalls' = 1
        /\ fieldValue' # fieldValue => (ppc = "read" /\ pasteError' = "none")]_vars
  /\ [](/\ pasteError \in {"none", CLIPBOARD_READ_DENIED}
        /\ pasteError # "none"
             => /\ ppc = "failed" /\ notice.type = "error"
                /\ notice.msg = CLIPBOARD_READ_DENIED
                /\ events = <<>> /\ submitCalls = 0 /\ submissions = <<>>
                /\ submitPromise = "none" /\ submitTimer = NoTimer)

\* a clipboard of a newline and a blank was read: error, field untouched
C16_Witness ==
  /\ pasteError = CLIPBOARD_READ_DENIED /\ ppc = "failed"
  /\ clipboard = <<"\n", " ">> /\ fieldValue = <<"x">>
  /\ notice.type = "error" /\ reads = 1 /\ submitCalls = 0

\* C17: the promise of submitForm is never rejected: with neither a form
\* nor a submit control it resolves at once and nothing is submitted, and
\* when form.submit() throws it resolves as well; in both cases the agent
\* ends with the success notification, and the only error notifications
\* are those of the missing textarea and of the clipboard read.
C17_SubmitNeverRejects ==
  /\ [][/\ (submitCalls' # submitCalls /\ form = "none")
             => /\ submitPromise' = "resolved" /\ ppc' = "done"
                /\ notice'.type = "success"
                /\ submissions' = IF submitButton THEN <<"click">> ELSE <<>>
        /\ (submitCalls' # submitCalls /\ form # "none")
             => (submitPromise' = "pending" /\ submitTimer' = Armed(SUBMIT_DELAY)
                   /\ submissions' = <<>>)
        /\ (submitPromise = "pending" /\ submitPromise' # "pending")
             => /\ submitPromise' = "resolved" /\ ppc' = "done"
                /\ notice' = [type |-> "success", msg |-> READY_FOR_ANALYSIS,
                              duration |-> PASTE_SUCCESS_TOAST]
                /\ submissions' = IF form = "throws" THEN <<>> ELSE <<"submit">>]_vars
  /\ [](/\ submitPromise \in {"none", "pending", "resolved"}
        /\ submitCalls > 0 => ppc \in {"submitDelay", "done"}
        /\ (ppc = "done") = (submitPromise = "resolved")
        /\ ppc = "done" => (notice.type = "success" /\ pasteError = "none")
        /\ notice.type = "error"
             => /\ submitCalls = 0 /\ ppc = "failed"
                /\ notice.msg \in {TEXTAREA_NOT_FOUND, CLIPBOARD_READ_DENIED})

\* form.submit() threw after the delay and the agent reports success
C17_Witness ==
  /\ form = "throws" /\ ppc = "done" /\ submitTimer.st = "fired"
  /\ submissions = <<>> /\ submitPromise = "resolved"
  /\ notice.type = "success" /\ fieldValue = <<"e", "4">>

(***************************************************************************)
(* sanitizePGN applied to bounded inputs                                   *)
(***************************************************************************)
MaxLen == 4         \* pieces an input string is made of

OpenTag == <<"<", "s", "c", "r", "i", "p", "t", ">">>
Body == <<"B">>

\* the pieces input strings are built from: a script block's opening tag,
\* its closing tag, a character of ordinary text, the two tag delimiters,
\* the line-ending characters, a blank line and a blank
Pieces ==
  { OpenTag, CloseScript, Body, <<"<">>, <<">">>, <<"\r">>, <<"\n">>,
    <<"\n", "\n">>, <<" ">> }

RECURSIVE Concat(_)
Concat(ps) ==
  IF Len(ps) = 0 THEN <<>> ELSE Head(ps) \o Concat(Tail(ps))

PieceSeqs == UNION {[1..n -> Pieces] : n \in 0..MaxLen}

\* values that are not strings: undefined, null, a number, an object
NonStrings ==
  {[type |-> t, chars |-> <<>>] : t \in {"undefined", "null", "number", "object"}}

Inputs == {JsString(Concat(ps)) : ps \in PieceSeqs} \cup NonStrings

\* sanitizePGN on any value: line 128 returns '' for what is not a string
sanitizeValue(v) ==
  JsString(IF v.type # "string" THEN <<>> ELSE sanitizePGN(v.chars))

InitSan == arg \in Inputs /\ once = Unset /\ twice = Unset /\ verdict = Unset

noPages == UNCHANGED <<waitVars, srcVars, dstVars, toastVars>>

\* sanitizePGN(arg)
Sanitize ==
  /\ once = Unset
  /\ once' = sanitizeValue(arg)
  /\ UNCHANGED <<arg, twice, verdict>> /\ noPages

\* sanitizePGN(sanitizePGN(arg))
SanitizeAgain ==
  /\ once # Unset /\ twice = Unset
  /\ twice' = sanitizeValue(once)
  /\ UNCHANGED <<arg, once, verdict>> /\ noPages

NextSan == Sanitize \/ SanitizeAgain

InitSanitize == InitSan /\ IdleWait /\ IdleSrc /\ IdleDst /\ IdleToast

SpecSan == InitSanitize /\ [][NextSan]_vars

(***************************************************************************)
(* Claims about sanitizePGN                                                *)
(***************************************************************************)
\* does text s hold the text p at some index
Contains(s, p) ==
  \E i \in 1..(Len(s) - Len(p) + 1) : SubSeq(s, i, i + Len(p) - 1) = p

\* the lengths of the maximal runs of newlines of s that stand between two
\* other characters, in order
RECURSIVE InnerRuns(_, _)
InnerRuns(s, i) ==
  IF i > Len(s) THEN <<>>
  ELSE IF s[i] # "\n" THEN InnerRuns(s, i + 1)
  ELSE LET stops == {j \in i..Len(s) : s[j] # "\n"}
           end == IF stops = {} THEN Len(s) + 1 ELSE Min(stops)
       IN (IF i = 1 \/ stops = {} THEN <<>> ELSE <<end - i>>)
            \o InnerRuns(s, end)

\* C18: sanitizePGN applied to its own result gives that result again, for
\* strings and for values that are not strings; for the latter and for the
\* empty string the result is the empty string.
C18_Idempotent ==
  /\ once # Unset
       => /\ once = sanitizeValue(arg)
          /\ once.type = "string"
          /\ (arg.type # "string" \/ arg.chars = <<>>) => once.chars = <<>>
  /\ twice # Unset => (once # Unset /\ twice = once)

\* two tags, a carriage return and an outer blank went away in the first
\* application and the second changed nothing
C18_Witness ==
  /\ arg = JsString(<<" ">> \o OpenTag \o <<"\r">> \o CloseScript)
  /\ once = JsString(<<>>) /\ twice = once

\* C19: the result for a string holds no carriage return, no three
\* newlines in a row, no whitespace at either end and no '<' with a '>'
\* somewhere after it; the text that remains between the tags keeps its
\* order, a run of three or more newlines inside it having become two.
C19_CleanOutput ==
  (once # Unset /\ arg.type = "string") =>
    LET out == once.chars
        mid == Trim(NormalizeLineEndings(StripTags(arg.chars)))
    IN /\ \A i \in 1..Len(out) : out[i] # "\r"
       /\ ~Contains(out, <<"\n", "\n", "\n">>)
       /\ Len(out) > 0 => (out[1] \notin WhiteSpace /\ out[Len(out)] \notin WhiteSpace)
       /\ \A i \in 1..Len(out) : \A j \in (i + 1)..Len(out) :
            ~(out[i] = "<" /\ out[j] = ">")
       /\ Len(InnerRuns(out, 1)) = Len(InnerRuns(mid, 1))
       /\ \A k \in 1..Len(InnerRuns(mid, 1)) :
            InnerRuns(out, 1)[k] =
              IF InnerRuns(mid, 1)[k] >= 3 THEN 2 ELSE InnerRuns(mid, 1)[k]

\* a CR LF and a blank line between two characters came out as two newlines
C19_Witness ==
  /\ arg = JsString(<<"B", "\r", "\n", "\n", "B">>)
  /\ once = JsString(<<"B", "\n", "\n", "B">>)

\* the text of the input whose only ordinary character stands in a script
\* block
ScriptBlock == OpenTag \o Body \o CloseScript

\* C20 as stated: when the input holds <script>B</script> and no B outside
\* of it, the result holds neither the opening tag, nor the closing tag, nor
\* B.
C20_ScriptBlockGone ==
  (once # Unset /\ arg.type = "string" /\ Contains(arg.chars, ScriptBlock)
     /\ Cardinality({i \in 1..Len(arg.chars) : arg.chars[i] = "B"}) = 1)
    => /\ ~Contains(once.chars, OpenTag)
       /\ ~Contains(once.chars, CloseScript)
       /\ ~Contains(once.chars, Body)

\* ------------------------------------------------------------------
\* validatePGN applied on its own
\* ------------------------------------------------------------------

\* A record is a sequence of atoms: single characters, and words of letters
\* (header names and header values) kept whole.
REQUIRED_HEADERS == <<"Event", "Site", "Date", "White", "Black", "Result">>

LetterAtoms == {"Event", "Site", "Date", "White", "Black", "Result",
                "Variant", "atomic", "Atomic", "standard", "x", "e"}
DigitAtoms == {"0", "1", "2", "4"}
\* \w of the header pattern
HeaderWord == LetterAtoms \cup DigitAtoms \cup {"_"}
\* \s of both patterns
Blank == {" ", "\t", "\n", "\r"}
Max(S) == CHOOSE x \in S : \A y \in S : x >= y

\* the last index of the longest run of atoms of a class that begins at i
\* (i - 1 when the run is empty)
RunEnd(s, i, class) ==
  LET stops == {k \in i..Len(s) : s[k] \notin class}
  IN  IF stops = {} THEN Len(s) ELSE Min(stops) - 1

\* the same for the run of atoms other than the double quote
QuoteFreeEnd(s, i) ==
  LET stops == {k \in i..Len(s) : s[k] = "\""}
  IN  IF stops = {} THEN Len(s) ELSE Min(stops) - 1

\* pgn.split('\n')
RECURSIVE SplitFrom(_, _, _)
SplitFrom(s, i, line) ==
  IF i > Len(s) THEN <<line>>
  ELSE IF s[i] = "\n" THEN <<line>> \o SplitFrom(s, i + 1, <<>>)
  ELSE SplitFrom(s, i + 1, Append(line, s[i]))

SplitLines(s) == SplitFrom(s, 1, <<>>)

\* REGEX_PATTERNS.PGN_HEADER = /\[(\w+)\s+"([^"]+)"\]/ tried at position i of a
\* line: the key and the value it captures, or no match
NoMatch == [found |-> FALSE, key |-> <<>>, value |-> <<>>]

\* faulty variant: the value is matched by \w+ instead of [^"]+
HeaderAtWordValue(line, i) ==
  LET k == RunEnd(line, i + 1, HeaderWord)
      b == RunEnd(line, k + 1, Blank)
      v == RunEnd(line, b + 2, HeaderWord)
  IN  IF /\ line[i] = "["
         /\ k >= i + 1
         /\ b >= k + 1
         /\ b + 1 <= Len(line) /\ line[b + 1] = "\""
         /\ v >= b + 2
         /\ v + 2 <= Len(line) /\ line[v + 1] = "\"" /\ line[v + 2] = "]"
      THEN [found |-> TRUE, key |-> SubSeq(line, i + 1, k),
            value |-> SubSeq(line, b + 2, v)]
      ELSE NoMatch

HeaderAt(line, i) ==
  LET k == RunEnd(line, i + 1, HeaderWord)
      b == RunEnd(line, k + 1, Blank)
      v == QuoteFreeEnd(line, b + 2)
  IN  IF /\ line[i] = "["
         /\ k >= i + 1
         /\ b >= k + 1
         /\ b + 1 <= Len(line) /\ line[b + 1] = "\""
         /\ v >= b + 2
         /\ v + 2 <= Len(line) /\ line[v + 1] = "\"" /\ line[v + 2] = "]"
      THEN [found |-> TRUE, key |-> SubSeq(line, i + 1, k),
            value |-> SubSeq(line, b + 2, v)]
      ELSE NoMatch

\* line.match(PGN_HEADER): the pattern has no g flag, the leftmost match counts
MatchHeader(line) ==
  LET at == {i \in 1..Len(line) : HeaderAt(line, i).found}
  IN  IF at = {} THEN NoMatch ELSE HeaderAt(line, Min(at))

\* headers[name] after extractHeaders(pgn): the value of the last line whose
\* match has this key, <<>> (undefined) when there is none
extractHeaders(s, name) ==
  LET lines == SplitLines(s)
      hits == {n \in 1..Len(lines) :
                 MatchHeader(lines[n]).found /\ MatchHeader(lines[n]).key = <<name>>}
  IN  IF hits = {} THEN <<>> ELSE MatchHeader(lines[Max(hits)]).value

\* /\d+\.\s*[a-zA-Z]/.test(pgn)
checkForMoves(s) ==
  \E j \in 1..Len(s) :
    /\ s[j] \in DigitAtoms
    /\ j + 1 <= Len(s) /\ s[j + 1] = "."
    /\ LET b == RunEnd(s, j + 2, Blank)
       IN  \E k \in (j + 2)..(b + 1) : k <= Len(s) /\ s[k] \in LetterAtoms

\* String.prototype.toLowerCase on a header value
toLowerCase(v) ==
  [i \in 1..Len(v) |-> IF v[i] = "Atomic" THEN "atomic" ELSE ToLower(v[i])]

validResults == {<<"1", "-", "0">>, <<"0", "-", "1">>,
                 <<"1", "/", "2", "-", "1", "/", "2">>, <<"*">>}

\* the messages validatePGN pushes
MissingHeader(name) == <<"Missing required header: ", name>>
UnusualResult(v) == <<"Unusual result format: ", v>>
NoMoves == <<"No moves found in PGN">>
NoVariant == <<"No Variant header found (should be \"atomic\" for atomic chess)">>
WrongVariant(v) == <<"Variant is \"", v, "\" (expected \"atomic\")">>

RECURSIVE FirstMissingFrom(_, _)
FirstMissingFrom(s, n) ==
  IF n > Len(REQUIRED_HEADERS) THEN <<>>
  ELSE IF extractHeaders(s, REQUIRED_HEADERS[n]) = <<>>
       THEN <<MissingHeader(REQUIRED_HEADERS[n])>>
       ELSE FirstMissingFrom(s, n + 1)

\* the errors of the loop over REQUIRED_HEADERS, in its order
RECURSIVE MissingFrom(_, _)
MissingFrom(s, n) ==
  IF n > Len(REQUIRED_HEADERS) THEN <<>>
  ELSE (IF extractHeaders(s, REQUIRED_HEADERS[n]) = <<>>
        THEN <<MissingHeader(REQUIRED_HEADERS[n])>> ELSE <<>>)
       \o MissingFrom(s, n + 1)

\* faulty variant: the loop stops at the first missing header
FirstMissing(s) == FirstMissingFrom(s, 1)

MissingHeaders(s) == MissingFrom(s, 1)

\* the warnings, in the order the code pushes them
Warnings(s) ==
  LET r == extractHeaders(s, "Result")
      v == extractHeaders(s, "Variant")
  IN  (IF checkForMoves(s) THEN <<>> ELSE <<NoMoves>>)
      \o (IF r # <<>> /\ r \notin validResults THEN <<UnusualResult(r)>> ELSE <<>>)
      \o (IF v = <<>> THEN <<NoVariant>>
          ELSE IF toLowerCase(v) # <<"atomic">> THEN <<WrongVariant(v)>>
          ELSE <<>>)

\* faulty variant: a warning makes the record invalid
StrictVerdict(errors, warnings) ==
  [type |-> "verdict", valid |-> errors = <<>> /\ warnings = <<>>,
   errors |-> errors, warnings |-> warnings]

Verdict(errors, warnings) ==
  [type |-> "verdict", valid |-> errors = <<>>, errors |-> errors,
   warnings |-> warnings]

validatePGN(v) ==
  IF v.type # "string" \/ v.chars = <<>>
  THEN Verdict(<<<<"PGN is empty or invalid type">>>>, <<>>)
  ELSE LET trimmedPGN == Trim(v.chars)
       IN  IF trimmedPGN = <<>>
           THEN Verdict(<<<<"PGN is empty">>>>, <<>>)
           ELSE Verdict(MissingHeaders(trimmedPGN), Warnings(trimmedPGN))

\* --- the records validatePGN is applied to ---
HeaderLine(name, v) == <<"[", name, " ", "\"">> \o v \o <<"\"", "]", "\n">>

\* how a header turns up in a record: not at all, with a value, or with ""
Forms == {"absent", "line", "empty"}
Plain == {"absent", "line"}
FormLine(name, how, v) ==
  IF how = "absent" THEN <<>>
  ELSE IF how = "empty" THEN HeaderLine(name, <<>>)
  ELSE HeaderLine(name, v)

ResultValues == {<<"1", "-", "0">>, <<"1", "/", "2", "-", "1", "/", "2">>,
                 <<"?", "?">>}
VariantValues == {<<"atomic">>, <<"Atomic">>, <<"standard">>}
MoveTexts == {<<>>, <<"\n", "1", ".", " ", "e", "4", " ", "e", "2">>,
              <<"\n", "1", "-", "0">>}

Layout ==
  [ev : Forms, si : Plain, da : Plain, wh : Plain, bl : Plain,
   re : Forms, rv : ResultValues, va : Forms, vv : VariantValues,
   mv : MoveTexts]

RecordOf(l) ==
  FormLine("Event", l.ev, <<"x">>) \o FormLine("Site", l.si, <<"x", " ", "x">>)
  \o FormLine("Date", l.da, <<"2", "0", "2", "4", ".", "0", "1">>)
  \o FormLine("White", l.wh, <<"x">>) \o FormLine("Black", l.bl, <<"x", "]">>)
  \o FormLine("Result", l.re, l.rv) \o FormLine("Variant", l.va, l.vv)
  \o l.mv

Records ==
  {JsString(RecordOf(l)) : l \in Layout}
  \cup {JsString(<<" ", "\n">>)} \cup NonStrings

InitVal == arg \in Records /\ once = Unset /\ twice = Unset /\ verdict = Unset

\* validatePGN(arg)
Validate ==
  /\ verdict = Unset
  /\ verdict' = validatePGN(arg)
  /\ UNCHANGED <<arg, once, twice>> /\ noPages

NextVal == Validate

InitValidate == InitVal /\ IdleWait /\ IdleSrc /\ IdleDst /\ IdleToast

SpecVal == InitValidate /\ [][NextVal]_vars

\* ------------------------------------------------------------------
\* Claims on validatePGN
\* ------------------------------------------------------------------

\* What a record says, read off its lines: a line [name "value"] is the tag
\* of the field name.
IsTagLine(line, name) ==
  /\ Len(line) >= 6
  /\ SubSeq(line, 1, 4) = <<"[", name, " ", "\"">>
  /\ SubSeq(line, Len(line) - 1, Len(line)) = <<"\"", "]">>

TagValues(s, name) ==
  {SubSeq(SplitLines(s)[n], 5, Len(SplitLines(s)[n]) - 2) :
     n \in {m \in 1..Len(SplitLines(s)) : IsTagLine(SplitLines(s)[m], name)}}

\* the field has a tag at all / has a tag with a non-empty value
HasTag(s, name) == TagValues(s, name) # {}
Filled(s, name) == TagValues(s, name) \ {<<>>} # {}

Validated == verdict # Unset
IsText == arg.type = "string"
AllFilled ==
  IsText /\ \A n \in 1..Len(REQUIRED_HEADERS) : Filled(arg.chars, REQUIRED_HEADERS[n])
HasMoveToken == IsText /\ checkForMoves(Trim(arg.chars))
InList(x, list) == \E n \in 1..Len(list) : list[n] = x

\* C21: a record with all six required header fields filled in and a move
\* token is valid and has no errors, whatever its warnings are.
C21_CompleteRecordValid ==
  (Validated /\ AllFilled /\ HasMoveToken)
    => (verdict.valid /\ verdict.errors = <<>>)

\* a complete record with moves was validated and drew warnings
C21_Witness ==
  /\ Validated /\ AllFilled /\ HasMoveToken
  /\ verdict.valid /\ Len(verdict.warnings) = 2

\* the fields of REQUIRED_HEADERS, in order, that satisfy a condition
RECURSIVE ErrorsFor(_, _)
ErrorsFor(lacking(_), n) ==
  IF n > Len(REQUIRED_HEADERS) THEN <<>>
  ELSE (IF lacking(REQUIRED_HEADERS[n])
        THEN <<MissingHeader(REQUIRED_HEADERS[n])>> ELSE <<>>)
       \o ErrorsFor(lacking, n + 1)

NoTag(name) == ~HasTag(arg.chars, name)
NotFilled(name) == ~Filled(arg.chars, name)
EmptyRecord == ~IsText \/ Trim(arg.chars) = <<>>

\* C22 as stated: the record is invalid exactly when a required field has no
\* tag (or the record is empty or not a string), and the errors then name
\* each field without a tag.
C22_InvalidIffAbsent ==
  Validated =>
    /\ ~verdict.valid <=>
         (EmptyRecord \/ \E n \in 1..Len(REQUIRED_HEADERS) : NoTag(REQUIRED_HEADERS[n]))
    /\ ~verdict.valid => verdict.errors = ErrorsFor(NoTag, 1)

\* C22: the record is invalid exactly when it is empty, blank or not a
\* string, or a required field has no tag with a non-empty value. An empty
\* record has the single error that says so; any other invalid record has one
\* error naming each such field, in the order of REQUIRED_HEADERS, so that one
\* without Result has the error naming Result.
C22_InvalidIffNotFilled ==
  Validated =>
    /\ ~verdict.valid <=> (EmptyRecord \/ ~AllFilled)
    /\ EmptyRecord => Len(verdict.errors) = 1 /\ Len(verdict.errors[1]) = 1
    /\ ~EmptyRecord => verdict.errors = ErrorsFor(NotFilled, 1)
    /\ (~EmptyRecord /\ NoTag("Result"))
          => InList(MissingHeader("Result"), verdict.errors)

\* a record whose Result has an empty value and which lacks two more fields
\* was validated
C22_Witness ==
  /\ Validated /\ ~EmptyRecord
  /\ HasTag(arg.chars, "Result") /\ NotFilled("Result")
  /\ Len(verdict.errors) = 3

\* C23: warnings never change validity: with all required fields filled in
\* the record is valid, and it carries the warning with the Result value when
\* that is not canonical, the warning for no move token, the warning for no
\* Variant, and the warning with the Variant value when that is not atomic in
\* any letter case.
C23_WarningsKeepValid ==
  (Validated /\ AllFilled) =>
    /\ verdict.valid
    /\ \A r \in TagValues(arg.chars, "Result") \ {<<>>} :
         r \notin validResults => InList(UnusualResult(r), verdict.warnings)
    /\ ~HasMoveToken => InList(NoMoves, verdict.warnings)
    /\ NotFilled("Variant") => InList(NoVariant, verdict.warnings)
    /\ \A v \in TagValues(arg.chars, "Variant") \ {<<>>} :
         toLowerCase(v) # <<"atomic">> => InList(WrongVariant(v), verdict.warnings)

\* a complete record with Result "??", no moves and Variant standard was
\* validated: three warnings and valid
C23_Witness ==
  /\ Validated /\ AllFilled /\ ~HasMoveToken
  /\ <<"?", "?">> \in TagValues(arg.chars, "Result")
  /\ <<"standard">> \in TagValues(arg.chars, "Variant")
  /\ verdict.valid /\ Len(verdict.warnings) = 3

\* ------------------------------------------------------------------
\* Claims on the source page, continued
\* ------------------------------------------------------------------

\* C24 as stated: the record written to the clipboard was sanitized and passed
\* the check for the required header fields.
C24_CheckedBeforeWrite ==
  InList("written", trace) =>
    /\ clipboard = sanitizePGN(pgn)
    /\ validatePGN(JsString(clipboard)).valid

\* a MutationObserver of the extension is connected: the re-injection watcher
\* or the observer of initialize's pending wait for the board
ObserversConnected == buttonObserver = "connected" \/ initPhase = "waitBoard"

\* a timer the extension set is pending: watcher debounce, board wait, reset,
\* click debounce, extraction timeout
TimersPending ==
  \/ obsTimer.st = "pending" \/ boardTimer.st = "pending"
  \/ resetTimer.st = "pending"
  \/ \E b \in 1..MaxBtn : btns[b].deb
  \/ \E k \in 1..MaxAct : calls[k].timer.st = "pending"

\* C25 as stated: when the beforeunload handler has run, no observer of the
\* extension is connected and no timer it set is pending.
C25_TornDownAtUnload ==
  [][Unload => (~ObserversConnected' /\ ~TimersPending')]_vars

\* the last steps of the running activation
EndsWith(tr, tail) ==
  Len(tr) >= Len(tail) /\ SubSeq(tr, Len(tr) - Len(tail) + 1, Len(tr)) = tail

\* C26: the error notification of an activation carries the message of the
\* failure that ended it: CLIPBOARD_WRITE_DENIED after a rejected clipboard
\* write, LICHESS_TAB_FAILED when window.open gave no window or threw,
\* PGN_BUTTON_NOT_FOUND when no export control was found or activating it
\* threw, INVALID_PGN when a data:text/plain link was intercepted whose href
\* does not match the data-URL pattern or does not decode, PGN_NOT_FOUND when
\* the 5-second timer fired with nothing intercepted.
C26_OwnMessage ==
  [][(toast'.type = "error" /\ toast.type # "error") =>
       /\ toast'.duration = ERROR_TOAST
       /\ toast'.msg =
            IF EndsWith(trace', <<"writeDenied", "error">>) THEN CLIPBOARD_WRITE_DENIED
            ELSE IF EndsWith(trace', <<"openBlocked", "error">>) THEN LICHESS_TAB_FAILED
            ELSE IF act' = 0 THEN PGN_BUTTON_NOT_FOUND
            ELSE IF calls'[act'].hit THEN INVALID_PGN
            ELSE IF calls'[act'].timer.st = "fired" THEN PGN_NOT_FOUND
            ELSE PGN_BUTTON_NOT_FOUND
       /\ EndsWith(trace', <<"writeDenied", "error">>)
            => (pc = "clip" /\ clipboard' = clipboard /\ tabs' = tabs)
       /\ EndsWith(trace', <<"openBlocked", "error">>)
            => (pc = "clip" /\ tabs' = tabs)
       /\ trace' = <<"loading", "error">> =>
            /\ act' = 0 => ~(dlRow \/ dlOther)
            /\ act' # 0 =>
                 /\ calls'[act'].settle = "rejected"
                 /\ calls'[act'].err = toast'.msg
                 /\ calls'[act'].removed /\ ~calls'[act'].listener
                 /\ (~calls'[act'].hit /\ calls'[act'].timer.st # "fired")
                      => calls'[act'].timer.st = "cleared"]_vars

\* an activation ended with the notification for an undecodable record
C26_Witness ==
  /\ toast.type = "error" /\ toast.msg = INVALID_PGN
  /\ act # 0 /\ calls[act].hit /\ calls[act].timer.st = "pending"

\* handleButtonClick() was invoked in this step: an activation started or an
\* invocation was turned away by the in-progress guard
Invoked == (~isProcessing /\ isProcessing') \/ (~ignored /\ ignored')

\* C27: the click listener of a trigger element is a trailing-edge debounce of
\* 300 ms.  A click never runs handleButtonClick: it only (re)starts the one
\* timer of the element, with delay 300, so the clicks of a burst share one
\* timer that is due 300 ms after the last of them; handleButtonClick runs
\* only when such a timer fires, once per firing, and the timer is then no
\* longer pending.
C27_TrailingDebounce ==
  /\ [][/\ \A b \in 1..MaxBtn :
             UserClick(b) => /\ btns'[b].deb /\ btns'[b].wait = BUTTON_DEBOUNCE
                             /\ UNCHANGED Transfer /\ ignored' = ignored
                             /\ PendingClicks' = PendingClicks + (IF btns[b].deb THEN 0 ELSE 1)
        /\ PendingClicks' < PendingClicks
             => /\ PendingClicks' = PendingClicks - 1
                /\ IF isProcessing THEN ignored' /\ UNCHANGED Transfer
                   ELSE isProcessing' /\ trace' # <<>>
        /\ Invoked => PendingClicks' = PendingClicks - 1]_vars
  /\ [](\A b \in 1..MaxBtn :
          /\ btns[b].deb => btns[b].wait = BUTTON_DEBOUNCE
          /\ ~btns[b].deb => btns[b].wait = 0)

\* the timer of a clicked control fired and started an activation; no click
\* is pending any more
C27_Witness ==
  /\ isProcessing /\ pc = "extract" /\ PendingClicks = 0
  /\ sendButton # 0 /\ InDocument(btns[sendButton])

\* ------------------------------------------------------------------
\* Claims on the destination page, continued
\* ------------------------------------------------------------------

\* C28: the destination agent reads the clipboard only once the input field
\* was found (a wait that times out ends with TEXTAREA_NOT_FOUND and no
\* read); it assigns the text only after a read that gave a non-blank text,
\* and dispatches input and then change right after; only then it submits,
\* at most once: form.submit() when the 100 ms timer fires if the field has a
\* form, otherwise a click on the submit control, if there is one, in the
\* task that dispatched the events.
C28_StepsInOrder ==
  /\ [][/\ reads' # reads
             => /\ ppc = "waitTextarea" /\ textarea
                /\ reads = 0 /\ events' = <<>> /\ submitCalls' = 0
        /\ (notice' # notice /\ notice'.msg = TEXTAREA_NOT_FOUND)
             => /\ ~textarea /\ reads' = 0 /\ ppc' = "failed"
                /\ taTimer'.st = "fired" /\ taTimer.delay = ELEMENT_WAIT
        /\ (events' # events \/ fieldValue' # fieldValue)
             => /\ ppc = "read" /\ reads = 1
                /\ ~IsBlank(clipboard) /\ fieldValue' = clipboard
                /\ events = <<>> /\ events' = <<"input", "change">>
                /\ submitCalls' = 1
        /\ submitCalls' # submitCalls
             => /\ events' = <<"input", "change">> /\ submitCalls = 0
                /\ IF form = "none"
                   THEN /\ submitTimer' = NoTimer
                        /\ submissions' = IF submitButton THEN <<"click">> ELSE <<>>
                   ELSE /\ submitTimer' = Armed(SUBMIT_DELAY)
                        /\ submissions' = <<>>
        /\ submissions' # submissions
             => /\ submissions = <<>> /\ events' = <<"input", "change">>
                /\ IF form = "none"
                   THEN ppc = "read" /\ submitButton /\ submissions' = <<"click">>
                   ELSE /\ ppc = "submitDelay"
                        /\ submitTimer = Armed(SUBMIT_DELAY)
                        /\ submitTimer'.st = "fired"
                        /\ submissions' = <<"submit">>]_vars
  /\ [](/\ reads <= 1 /\ submitCalls <= 1 /\ Len(submissions) <= 1
        /\ events \in {<<>>, <<"input", "change">>}
        /\ (ppc = "failed" /\ notice.msg \in {TEXTAREA_NOT_FOUND, CLIPBOARD_READ_DENIED})
             => (events = <<>> /\ submitCalls = 0 /\ submissions = <<>>))

\* the field had a form: read, assignment, both events, and form.submit()
\* when the 100 ms timer fired
C28_Witness ==
  /\ reads = 1 /\ fieldValue = clipboard /\ events = <<"input", "change">>
  /\ form = "plain" /\ submissions = <<"submit">>
  /\ submitTimer.st = "fired" /\ submitTimer.delay = SUBMIT_DELAY

\* ------------------------------------------------------------------
\* Claims on the element waits, continued
\* ------------------------------------------------------------------

\* C29 as stated: waitForVisibleElement rejects no later than timeout ms after
\* the call.  Without a clock: the timer whose firing rejects the promise for
\* an element that is not visible was started in the task of the call, not
\* after a wait for the element to be inserted.
C29_RejectsWithinTimeout ==
  (wKind = "visible" /\ promise = "rejected" /\ timer2.st = "fired")
     => timer1 = NoTimer

RemovalWait == wKind = "removal"
Gone == QuerySelector(dom, wSels[1]) = NoElem

\* C30: waitForElementRemoval resolves in the call, with no observer and no
\* timer, when nothing matches; otherwise it sets one timer and one observer
\* and stays pending until a mutation notification finds no match (it then
\* clears the timer, disconnects and resolves) or the timer fires while a
\* match is still there (it then disconnects and rejects); the promise settles
\* once, and nothing is pending or connected afterwards.
C30_RemovalWait ==
  /\ [][/\ (wKind = "none" /\ wKind' = "removal")
             => IF QuerySelector(dom, wSels'[1]) = NoElem
                THEN /\ promise' = "resolved" /\ resolveCalls' = 1
                     /\ obsCreated' = 0 /\ timersCreated' = 0
                     /\ obs1' = "none" /\ timer1' = NoTimer
                ELSE /\ promise' = "pending"
                     /\ obsCreated' = 1 /\ timersCreated' = 1
                     /\ obs1' = "connected" /\ timer1' = Armed(wTimeout')
        /\ (RemovalWait /\ rec1 /\ ~rec1')
             => IF Gone
                THEN /\ promise = "pending" /\ promise' = "resolved"
                     /\ timer1'.st = "cleared" /\ obs1' = "disconnected"
                ELSE /\ promise' = "pending"
                     /\ timer1' = timer1 /\ obs1' = "connected"
        /\ (RemovalWait /\ promise = "pending" /\ promise' = "resolved")
             => (rec1 /\ Gone)
        /\ (RemovalWait /\ promise = "pending" /\ promise' = "rejected")
             => /\ timer1 = Armed(wTimeout) /\ timer1'.st = "fired"
                /\ ~Gone /\ obs1' = "disconnected"
                /\ error' = StillPresentError(wTimeout, wSels)
        /\ (RemovalWait /\ timer1.st = "pending" /\ timer1'.st = "fired")
             => promise' = "rejected"
        /\ (RemovalWait /\ promise # "pending")
             => (promise' = promise /\ resolveCalls' = resolveCalls
                   /\ rejectCalls' = rejectCalls)]_vars
  /\ [](RemovalWait =>
          /\ resolveCalls + rejectCalls <= 1
          /\ (promise = "pending") = (resolveCalls + rejectCalls = 0)
          /\ (promise = "pending") = (obs1 = "connected")
          /\ (promise = "pending") = (timer1.st = "pending")
          /\ obs2 = "none" /\ timer2 = NoTimer
          /\ obsCreated <= 1 /\ timersCreated = obsCreated)

\* the wait was resolved by the notification of the removal
C30_Witness ==
  /\ RemovalWait /\ promise = "resolved" /\ Gone
  /\ timer1.st = "cleared" /\ obs1 = "disconnected"
  /\ resolveCalls = 1 /\ rejectCalls = 0

\* ------------------------------------------------------------------
\* The toast notifications (shared/notifications.js)
\* ------------------------------------------------------------------
ANIMATION_DURATION == 300
NOTIFICATION_ERROR_DURATION == 8000

\* duration = null in updateNotification
NoDuration == -1
\* type = null in updateNotification
NoType == "null"

ToastIds == 1..(MaxRuns + 1)

\* faulty variant: the counter is not advanced
SameId(c) == 1

\* `atl-notification-${++notificationCounter}`
NextId(c) == c + 1

\* ensureContainer(): the number of containers in the document afterwards
ensureContainer(n) == IF n > 0 THEN n ELSE 1

\* A notification object and its element: the id, the type, whether the
\* element has a close button, what timeoutId refers to (null, a pending
\* timer, a timer that fired or was cleared), the delay of that timer, the
\* number of pending auto-dismiss timers that dismiss this id, the number of
\* pending removal timers, the delay of the exit animation once it was
\* started, and whether the element is in the document.
NewNote(id, type, duration) ==
  [id |-> id, type |-> type, closable |-> type # "loading",
   timeoutId |-> IF duration > 0 THEN "live" ELSE "null",
   delay |-> IF duration > 0 THEN duration ELSE 0,
   auto |-> IF duration > 0 THEN 1 ELSE 0,
   removals |-> 0, exit |-> 0, inDom |-> TRUE]

\* if (notification.timeoutId) clearTimeout(notification.timeoutId)
ClearTimer(nt) ==
  IF nt.timeoutId = "live"
  THEN [nt EXCEPT !.auto = @ - 1, !.timeoutId = "stale", !.delay = 0]
  ELSE nt

\* faulty variant: the earlier timer is left pending
KeepEarlier(nt) == nt

\* updateNotification, lines 85-88: the earlier timer is cleared and
\* timeoutId set to null
ClearEarlier(nt) ==
  IF nt.timeoutId = "null" THEN nt
  ELSE [ClearTimer(nt) EXCEPT !.timeoutId = "null"]

\* faulty variant: the duration is ignored, only the type is updated
updateTypeOnly(ns, map, id, type, duration) ==
  IF map[id] = 0 THEN ns
  ELSE [ns EXCEPT ![map[id]].type = IF type # NoType THEN type ELSE @]

\* updateNotification(id, message, type, duration)
updateNotification(ns, map, id, type, duration) ==
  IF map[id] = 0 THEN ns
  ELSE LET s == map[id]
           typed == IF type # NoType /\ type # ns[s].type
                    THEN [ns[s] EXCEPT !.type = type] ELSE ns[s]
           cleared == ClearEarlier(typed)
       IN [ns EXCEPT ![s] =
             IF duration = NoDuration THEN typed
             ELSE IF duration > 0
                  THEN [cleared EXCEPT !.timeoutId = "live", !.delay = duration,
                                       !.auto = @ + 1]
                  ELSE cleared]

\* dismissNotification(id): the timer is cleared, the exit animation started
\* and the removal timer set
dismissNotification(ns, map, id) ==
  IF map[id] = 0 THEN ns
  ELSE [ns EXCEPT ![map[id]] =
          [ClearTimer(@) EXCEPT !.exit = ANIMATION_DURATION,
                                !.removals = @ + 1]]

\* the pending removal timers of a notification are capped
CanDismiss(map, ns, id) ==
  IF map[id] = 0 THEN TRUE ELSE ns[map[id]].removals < MaxRemovals

\* showNotification(message, type, duration): returns the id
showNotification(type, duration) ==
  LET id == NextId(notificationCounter)
  IN /\ notificationCounter' = id
     /\ containers' = ensureContainer(containers)
     /\ notes' = Append(notes, NewNote(id, type, duration))
     /\ activeNotifications' = [activeNotifications EXCEPT ![id] = Len(notes) + 1]

noOtherPage == UNCHANGED <<waitVars, srcVars, dstVars, sanVars>>

\* showLoading, and showError with its default duration
Shows == {<<"loading", 0>>, <<"error", NOTIFICATION_ERROR_DURATION>>}

\* updateNotification as the agents call it when they succeed, and with a
\* duration of 0
Updates == {<<"success", SUCCESS_TOAST>>, <<NoType, 0>>}

\* a call of showNotification by any caller
Show(type, duration) ==
  /\ Len(notes) < MaxToast
  /\ showNotification(type, duration)
  /\ UNCHANGED <<notificationId, agentPc>> /\ noOtherPage

\* a call of updateNotification by any caller, for any id
Update(id, type, duration) ==
  /\ notes' = updateNotification(notes, activeNotifications, id, type, duration)
  /\ UNCHANGED <<notificationCounter, activeNotifications, containers,
                 notificationId, agentPc>>
  /\ noOtherPage

\* a call of dismissNotification by any caller, for any id
Dismiss(id) ==
  /\ CanDismiss(activeNotifications, notes, id)
  /\ notes' = dismissNotification(notes, activeNotifications, id)
  /\ UNCHANGED <<notificationCounter, activeNotifications, containers,
                 notificationId, agentPc>>
  /\ noOtherPage

\* an auto-dismiss timer of notification s fires: dismissNotification(id)
AutoDismissFire(s) ==
  /\ s \in 1..Len(notes) /\ notes[s].auto > 0
  /\ CanDismiss(activeNotifications, notes, notes[s].id)
  /\ LET tracked == notes[s].auto = 1 /\ notes[s].timeoutId = "live"
         fired == [notes EXCEPT ![s] =
                     IF tracked
                     THEN [@ EXCEPT !.auto = 0, !.timeoutId = "stale", !.delay = 0]
                     ELSE [@ EXCEPT !.auto = @ - 1]]
     IN notes' = dismissNotification(fired, activeNotifications, notes[s].id)
  /\ UNCHANGED <<notificationCounter, activeNotifications, containers,
                 notificationId, agentPc>>
  /\ noOtherPage

\* a removal timer of notification s fires: removeElement(element);
\* activeNotifications.delete(id)
RemoveFire(s) ==
  /\ s \in 1..Len(notes) /\ notes[s].removals > 0
  /\ notes' = [notes EXCEPT ![s].removals = @ - 1, ![s].inDom = FALSE]
  /\ activeNotifications' = [activeNotifications EXCEPT ![notes[s].id] = 0]
  /\ UNCHANGED <<notificationCounter, containers, notificationId, agentPc>>
  /\ noOtherPage

\* the user clicks the close button of notification s
CloseClick(s) ==
  /\ s \in 1..Len(notes) /\ notes[s].closable /\ notes[s].inDom
  /\ CanDismiss(activeNotifications, notes, notes[s].id)
  /\ notes' = dismissNotification(notes, activeNotifications, notes[s].id)
  /\ UNCHANGED <<notificationCounter, activeNotifications, containers,
                 notificationId, agentPc>>
  /\ noOtherPage

NextToast ==
  \/ \E sh \in Shows : Show(sh[1], sh[2])
  \/ \E id \in 1..(MaxToast + 1), up \in Updates : Update(id, up[1], up[2])
  \/ \E id \in 1..(MaxToast + 1) : Dismiss(id)
  \/ \E s \in 1..MaxToast : AutoDismissFire(s)
  \/ \E s \in 1..MaxToast : RemoveFire(s)
  \/ \E s \in 1..MaxToast : CloseClick(s)

InitToast == IdleToast /\ IdleWait /\ IdleSrc /\ IdleDst /\ IdleSan

SpecToast == InitToast /\ [][NextToast]_vars

\* ---- the notification calls of handleButtonClick and of
\* ---- initializeLichessPaste
\* the agent function starts: notificationId = showLoading(...)
AgentStart ==
  /\ agentPc = "idle" /\ Len(notes) < MaxRuns
  /\ showNotification("loading", 0)
  /\ notificationId' = NextId(notificationCounter)
  /\ agentPc' = "running"
  /\ noOtherPage

\* the agent function reaches its second step:
\* updateNotification(notificationId, ..., 'loading')
AgentProgress ==
  /\ agentPc = "running"
  /\ notes' = updateNotification(notes, activeNotifications, notificationId,
                                 "loading", NoDuration)
  /\ agentPc' = "second"
  /\ UNCHANGED <<notificationCounter, activeNotifications, containers,
                 notificationId>>
  /\ noOtherPage

\* the agent function ends: updateNotification(notificationId, ..., 'success',
\* 3000) at the end of the try block, or (..., 'error', 8000) in the catch
AgentEnd(ok) ==
  /\ agentPc \in {"running", "second"} /\ (ok => agentPc = "second")
  /\ notes' = updateNotification(notes, activeNotifications, notificationId,
                                 IF ok THEN "success" ELSE "error",
                                 IF ok THEN SUCCESS_TOAST ELSE ERROR_TOAST)
  /\ notificationId' = 0 /\ agentPc' = "idle"
  /\ UNCHANGED <<notificationCounter, activeNotifications, containers>>
  /\ noOtherPage

NextAgentToast ==
  \/ AgentStart
  \/ AgentProgress
  \/ \E ok \in BOOLEAN : AgentEnd(ok)
  \/ \E s \in 1..MaxRuns : AutoDismissFire(s)
  \/ \E s \in 1..MaxRuns : RemoveFire(s)

SpecAgentToast == InitToast /\ [][NextAgentToast]_vars

\* the agent function runs to its end (every await of it settles), and due
\* timers fire
FairAgentToast ==
  /\ WF_vars(\E ok \in BOOLEAN : AgentEnd(ok))
  /\ \A s \in 1..MaxRuns : WF_vars(AutoDismissFire(s)) /\ WF_vars(RemoveFire(s))

FairSpecAgentToast == SpecAgentToast /\ FairAgentToast

\* ------------------------------------------------------------------
\* C31: a loading toast never stays forever
\* ------------------------------------------------------------------
\* the notification of the s-th run of the agent function
Toast(s) == notes[s]
Started(s) == s <= Len(notes)
Active(s) == Started(s) /\ activeNotifications[Toast(s).id] = s
Removed(s) ==
  /\ Started(s) /\ ~Toast(s).inDom /\ activeNotifications[Toast(s).id] = 0

Resting(s) ==
  /\ Active(s) /\ Toast(s).inDom
  /\ Toast(s).auto = 0 /\ Toast(s).removals = 0

\* C32: a notification has at most one pending auto-dismiss timer, the one
\* timeoutId refers to; a notification created with duration 0 has none; and
\* a notification without a timer stays active and in the document: the only
\* steps that change this give it a timer with a positive delay
\* (updateNotification) or start its dismissal (dismissNotification), and no
\* timer of it can fire
C32_NoTimerUntilUpdate ==
  /\ [](\A s \in 1..MaxToast : Started(s) =>
          /\ Toast(s).auto <= 1
          /\ Toast(s).auto = 1 <=> Toast(s).timeoutId = "live"
          /\ Toast(s).auto = 1 <=> Toast(s).delay > 0
          /\ Resting(s) => ~ENABLED AutoDismissFire(s) /\ ~ENABLED RemoveFire(s))
  /\ [][/\ Len(notes') > Len(notes) =>
             LET new == notes'[Len(notes')]
             IN new.type = "loading" =>
                  /\ new.auto = 0 /\ new.timeoutId = "null"
                  /\ new.removals = 0 /\ new.inDom
                  /\ activeNotifications'[new.id] = Len(notes')
        /\ \A s \in 1..MaxToast : (Resting(s) /\ ~Resting(s)') =>
             /\ Active(s)' /\ Toast(s)'.inDom
             /\ \/ /\ Toast(s)'.auto = 1 /\ Toast(s)'.delay > 0
                   /\ Toast(s)'.removals = 0
                \/ /\ Toast(s)'.removals = 1 /\ Toast(s)'.auto = 0
                   /\ Toast(s)'.exit = ANIMATION_DURATION]_vars

\* a loading notification that rests without a timer, next to a notification
\* whose 8000 ms timer was replaced by a 3000 ms timer
C32_Witness ==
  \E s, t \in 1..MaxToast :
    /\ Resting(s) /\ Toast(s).type = "loading" /\ Toast(s).timeoutId = "null"
    /\ Active(t) /\ Toast(t).closable /\ Toast(t).auto = 1
    /\ Toast(t).timeoutId = "live" /\ Toast(t).delay = SUCCESS_TOAST

\* ------------------------------------------------------------------
\* C33: distinct ids, one container, unknown ids change nothing
\* ------------------------------------------------------------------
\* what a notification shows and whether it is still there
Shown(nt) == <<nt.id, nt.type, nt.closable, nt.exit, nt.inDom>>

\* C33: the ids of the notifications are pairwise distinct and each id is at
\* most once in activeNotifications; the document holds at most one
\* container, and one as soon as a notification was shown; a call of
\* updateNotification or dismissNotification with an id that has no entry
\* (never given out, or removed) changes nothing; and a step changes a
\* notification only if it has an entry in activeNotifications, never sets
\* a timer for one that has none, and never changes two at once
C33_IdsContainerUnknown ==
  /\ [](/\ \A s, t \in 1..MaxToast :
             (Started(s) /\ Started(t) /\ s # t) => Toast(s).id # Toast(t).id
        /\ \A id \in ToastIds : activeNotifications[id] # 0 =>
             /\ activeNotifications[id] <= Len(notes)
             /\ notes[activeNotifications[id]].id = id
        /\ containers <= 1 /\ (Len(notes) > 0 => containers = 1)
        /\ \A id \in ToastIds : activeNotifications[id] = 0 =>
             /\ dismissNotification(notes, activeNotifications, id) = notes
             /\ \A up \in Updates :
                  updateNotification(notes, activeNotifications, id,
                                     up[1], up[2]) = notes)
  /\ [][/\ \A s \in 1..MaxToast : (Started(s) /\ ~Active(s)) =>
             /\ Shown(Toast(s)') = Shown(Toast(s)) /\ ~Active(s)'
             /\ Toast(s)'.auto <= Toast(s).auto
             /\ Toast(s)'.removals <= Toast(s).removals
        /\ \A s, t \in 1..MaxToast : (Started(s) /\ Started(t) /\ s # t) =>
             (Toast(s)' = Toast(s) \/ Toast(t)' = Toast(t))
        /\ \A id \in ToastIds : activeNotifications[id] = 0 =>
             ((Dismiss(id) \/ \E up \in Updates : Update(id, up[1], up[2]))
                => UNCHANGED vars)]_vars

\* two notifications with different ids in one container; the first was
\* dismissed and removed, so its id is unknown again, the second is untouched
C33_Witness ==
  /\ Len(notes) = 2 /\ containers = 1
  /\ Removed(1) /\ Toast(1).exit = ANIMATION_DURATION
  /\ Active(2) /\ Toast(2) = NewNote(2, "loading", 0)
  /\ Toast(1).id = 1 /\ notificationCounter = 2

\* ------------------------------------------------------------------
\* C34: the control in the document shows whether an activation runs
\* ------------------------------------------------------------------
\* C34: whenever a trigger control is in the document, it shows loading,
\* success or error if isProcessing is set and idle if it is not, also after
\* the re-injection watcher replaced or relocated the control
C34_ControlShowsProcessing ==
  ShownLook # "absent" => (isProcessing <=> ShownLook # "idle")

\* ------------------------------------------------------------------
\* C35: one control whenever the page is quiet
\* ------------------------------------------------------------------
\* the watcher is connected and its debounce timer is not pending: the last
\* DOM mutation is more than 500 ms ago
Quiet ==
  /\ initPhase = "armed" /\ buttonObserver = "connected"
  /\ obsTimer.st # "pending"

\* C35: whenever the source agent is armed and the page is quiet, exactly one
\* trigger control is in the document and sendButton refers to it, in the
\* control row if there is one and as the fixed fallback otherwise
C35_ControlWhenQuiet ==
  Quiet =>
    /\ Cardinality(TriggerControls) = 1
    /\ sendButton \in TriggerControls
    /\ btns[sendButton].loc = (IF row THEN "row" ELSE "fixed")

\* ------------------------------------------------------------------
\* C36: the re-injection watcher comes to rest
\* ------------------------------------------------------------------
\* a run of the watcher's callback would take neither of its two branches
\* that write to the document (lines 419 and 427)
AtRest ==
  /\ ~(~ButtonExists(btns) /\ row)
  /\ ~(ButtonExists(btns) /\ row /\ ~ContainerInRow(btns))

\* the trigger controls in the document, with where they are and what they
\* show
ControlsInDocument == [b \in TriggerControls |-> btns[b]]

\* C36: a run of the watcher's callback leaves a document in which a further
\* run changes nothing; when it changed the document its own write restarts
\* the debounce timer, and the run that follows changes nothing and leaves
\* the timer unset; only the host's adding of a control row makes a run
\* change the document again: no write of the extension (injection, state
\* of the control, notifications, the intercepted link click) does; a
\* watcher is connected once, by initialize, and none is connected after it
C36_WatcherComesToRest ==
  [][/\ WatcherFire =>
          /\ AtRest'
          /\ obsTimer' = (IF ControlsInDocument' # ControlsInDocument
                          THEN Armed(WATCHER_DEBOUNCE) ELSE NoTimer)
          /\ AtRest => (ControlsInDocument' = ControlsInDocument
                         /\ sendButton' = sendButton)
     /\ (AtRest /\ ~AtRest' /\ buttonObserver' = "connected")
          => (~row /\ row')
     /\ (buttonObserver # "connected" /\ buttonObserver' = "connected")
          => (buttonObserver = "none" /\ initPhase # "armed"
                /\ initPhase' = "armed")]_vars

\* the watcher replaced the fallback by a control in the row while an
\* activation was running, ran once more and left the timer unset
C36_Witness ==
  /\ Quiet /\ AtRest /\ obsTimer = NoTimer
  /\ isProcessing /\ ShownLook = "idle"
  /\ sendButton # 0 /\ btns[sendButton].loc = "row"

\* ------------------------------------------------------------------
\* C37: an activation that ends in error leaves the clipboard alone
\* ------------------------------------------------------------------
\* C37: the clipboard content changes only in a step of an activation that
\* ends in success; an activation that ends in the error state leaves the
\* clipboard as it was
C37_ErrorKeepsClipboard ==
  [][clipboard' # clipboard
       => (toast'.type = "success" /\ EndsWith(trace', <<"success">>))]_vars

\* ------------------------------------------------------------------
\* C38: no empty record is written to the clipboard
\* ------------------------------------------------------------------
\* C38: whenever handleButtonClick has called clipboard.writeText, its
\* argument is a non-empty text, and an activation that reached success
\* has left a non-empty text on the clipboard
C38_NeverWritesEmpty ==
  /\ InList("writeText", trace) => Len(cleanPGN) > 0
  /\ InList("success", trace) => Len(clipboard) > 0

\* ------------------------------------------------------------------
\* C39: success only after a submit action
\* ------------------------------------------------------------------
\* form.submit() was called (it may have thrown) or the submit control was
\* clicked
SubmitPerformed ==
  \/ Len(submissions) >= 1
  \/ form = "throws" /\ submitTimer.st = "fired"

\* C39: the destination agent shows its success notification ('Ready for
\* analysis') only if the run has called form.submit() or clicked the
\* submit control
C39_SuccessAfterSubmit ==
  (notice.type = "success" /\ notice.msg = READY_FOR_ANALYSIS)
    => SubmitPerformed

====
